---- MODULE Spec2Model ----
(***************************************************************************)
(* State-machine model of maws' HTML extraction engine                     *)
(* (src/src/maws/parser.py): ProductHTMLParser, the listing extractor, and *)
(* DetailedProductParser, the detail extractor.  html.parser.HTMLParser    *)
(* turns a document into calls of handle_starttag / handle_data /          *)
(* handle_endtag; here every such call is one step.                        *)
(*                                                                         *)
(* Python values:                                                          *)
(*   str        a sequence of one-character strings, <<"a","b">> = "ab"    *)
(*              (class values are sequences of chunks, see ClassChunks)    *)
(*   None       the reserved one-element sequence None                     *)
(*   dict       a function whose DOMAIN is the set of keys                 *)
(*   field key  a TLA+ string; "None" (NoField) when capture_field is None *)
(***************************************************************************)
EXTENDS Integers, Sequences, FiniteSets, TLC

\* ------------------------------------------------------------------ bounds
\* Number of tokenizer events fed to the listing extractor (any order).
MaxEvents == 6
\* Number of events of a well-formed document fed to the listing extractor.
MaxEventsWF == 8
\* Nesting depth of a well-formed document.
MaxDepthWF == 4
\* Number of events of the original document of the twin pass, and its depth.
MaxEventsTwin == 7
MaxDepthTwin == 4
\* Number of events fed to the detail extractor (any order).
MaxEventsDetail == 5
\* Number of events of a well-formed document fed to the detail extractor, and
\* its nesting depth.
MaxEventsDetailWF == 7
MaxDepthDetailWF == 4
\* Number of events of a generated specification list fed to the detail extractor.
MaxEventsSpecs == 13
\* Number of events of a generated tier-price table fed to the detail extractor.
MaxEventsTier == 36
\* Number of events of a generated breadcrumb trail fed to the detail extractor.
MaxEventsCrumbs == 24
\* Number of events of the document that is parsed twice.
MaxEventsAgain == 6
\* Number of events of a generated products list of sibling items.
MaxEventsItem == 12
\* Number of events of a generated page with stock divs fed to the detail extractor.
MaxEventsStock == 6
\* Number of events of a generated description list fed to the detail extractor.
MaxEventsDesc == 13
\* Number of pieces a page text given to extract_total_products is made of.
MaxPieces == 4
MaxPages == 4

\* ------------------------------------------------------- Python primitives
None == <<"None">>
NoField == "None"
EmptyStr == <<>>
EmptyDict == [k \in {} |-> None]

Truthy(s) == s # None /\ s # EmptyStr

IsSpace(c) == c = " "

RECURSIVE LStrip(_)
LStrip(s) == IF s # <<>> /\ IsSpace(Head(s)) THEN LStrip(Tail(s)) ELSE s

RECURSIVE RStrip(_)
RStrip(s) ==
    IF s # <<>> /\ IsSpace(s[Len(s)]) THEN RStrip(SubSeq(s, 1, Len(s) - 1)) ELSE s

\* str.strip()
Strip(s) == RStrip(LStrip(s))

\* sep.join(parts)
RECURSIVE Join(_, _)
Join(sep, parts) ==
    IF parts = <<>> THEN <<>>
    ELSE IF Len(parts) = 1 THEN parts[1]
    ELSE parts[1] \o sep \o Join(sep, Tail(parts))

Digits == {"0", "1", "2", "3", "4", "5", "6", "7", "8", "9"}

DigitVal(c) ==
    CASE c = "0" -> 0 [] c = "1" -> 1 [] c = "2" -> 2 [] c = "3" -> 3
      [] c = "4" -> 4 [] c = "5" -> 5 [] c = "6" -> 6 [] c = "7" -> 7
      [] c = "8" -> 8 [] c = "9" -> 9

RECURSIVE DecValue(_)
DecValue(s) ==
    IF s = <<>> THEN 0 ELSE 10 * DecValue(SubSeq(s, 1, Len(s) - 1)) + DigitVal(s[Len(s)])

\* int(s) for a str s: surrounding whitespace is ignored, then a non-empty run of
\* decimal digits gives its value; anything else raises ValueError (ok = FALSE).
PyInt(s) ==
    LET t == Strip(s) IN
    IF t # <<>> /\ \A i \in 1..Len(t) : t[i] \in Digits
    THEN [ok |-> TRUE, v |-> DecValue(t)]
    ELSE [ok |-> FALSE, v |-> 0]

\* needle in hay (contiguous sub-sequence)
Contains(hay, needle) ==
    \E i \in 0..(Len(hay) - Len(needle)) :
        SubSeq(hay, i + 1, i + Len(needle)) = needle

\* hay.startswith(prefix)
StartsWith(hay, prefix) ==
    Len(prefix) <= Len(hay) /\ SubSeq(hay, 1, Len(prefix)) = prefix

\* attrs.get(key) and attrs.get(key, "")
Get(attrs, key) == attrs[key]
GetOrEmpty(attrs, key) == IF attrs[key] = None THEN EmptyStr ELSE attrs[key]

\* d[k] = v
SetKey(d, k, v) == [x \in (DOMAIN d) \cup {k} |-> IF x = k THEN v ELSE d[x]]

\* An attribute list as dict(attrs): absent attributes are None.
NoAttrs ==
    [class |-> None, itemprop |-> None, data_product_id |-> None,
     href |-> None, src |-> None, id |-> None]

WithClass(c) == [NoAttrs EXCEPT !.class = c]

\* ------------------------------------------------------------------------
\* ProductHTMLParser (listing extractor)
\* ------------------------------------------------------------------------
ClsProductsList == <<"products list items product-items">>
ClsProductItemInfo == <<"product-item-info">>
ClsProductItemPhoto == <<"product-item-photo">>
ClsProductImagePhoto == <<"product-image-photo">>
ClsProductItemLink == <<"product-item-link">>
ClsProductItemBrand == <<"product-item-brand">>
ClsProductItemUnit == <<"product-item-unit">>
ClsPrice == <<"price initialized-price">>
ClsNextTier == <<"next-tier initialized-price">>
ClsBestBefore == <<"best_before">>
ClsStock == <<"stock">>
Sku == <<"sku">>

\* ProductHTMLParser.__init__
InitProductHTMLParser ==
    [products |-> <<>>,
     in_target_ol |-> FALSE,
     ol_depth |-> 0,
     in_product_div |-> FALSE,
     product_div_depth |-> 0,
     current_product |-> EmptyDict,
     capture_field |-> NoField,
     text_buffer |-> <<>>]

\* mutant: the record list is shared with the parser constructed before
NewProductHTMLParser_SharedProducts(prev) ==
    [InitProductHTMLParser EXCEPT !.products = prev.products]

\* ProductHTMLParser(): every field is set anew on the instance, whatever an
\* earlier instance holds.
NewProductHTMLParser(prev) == InitProductHTMLParser

\* tag == "ol" and attrs.get("class") == "products list items product-items"
IsProductsList(tag, attrs) == tag = "ol" /\ Get(attrs, "class") = ClsProductsList

\* mutant: the product container test without the in_target_ol guard
IsProductContainer_AnyWhere(p, tag, attrs) ==
    tag = "div" /\ Get(attrs, "class") = ClsProductItemInfo

\* self.in_target_ol and tag == "div" and attrs.get("class") == "product-item-info"
IsProductContainer(p, tag, attrs) ==
    p.in_target_ol /\ tag = "div" /\ Get(attrs, "class") = ClsProductItemInfo

\* int(product_id) raises ValueError
ProductIdRaises(attrs) ==
    Truthy(Get(attrs, "data_product_id")) /\ ~PyInt(Get(attrs, "data_product_id")).ok

\* int(product_id) if product_id else 0
ProductIdOf(attrs) ==
    IF Truthy(Get(attrs, "data_product_id"))
    THEN PyInt(Get(attrs, "data_product_id")).v
    ELSE 0

\* the dict assigned to self.current_product when a product container starts
NewProduct(attrs) ==
    [k \in {"product_id", "price", "tier_price", "best_before", "stock_status"} |->
        IF k = "product_id" THEN ProductIdOf(attrs) ELSE None]

\* the if/elif chain that picks the text field a start tag captures into
CaptureTrigger(tag, attrs) ==
    IF tag = "a" /\ Get(attrs, "class") = ClsProductItemLink THEN "name"
    ELSE IF tag = "div" /\ Get(attrs, "class") = ClsProductItemBrand THEN "brand"
    ELSE IF tag = "span" /\ Get(attrs, "itemprop") = Sku THEN "sku"
    ELSE IF tag = "div" /\ Get(attrs, "class") = ClsProductItemUnit THEN "contents"
    ELSE IF tag = "span" /\ Get(attrs, "class") = ClsPrice THEN "price"
    ELSE IF tag = "span" /\ Get(attrs, "class") = ClsNextTier THEN "tier_price"
    ELSE IF tag = "span" /\ Get(attrs, "class") = ClsBestBefore THEN "best_before"
    ELSE IF tag = "div" /\ StartsWith(GetOrEmpty(attrs, "class"), ClsStock)
         THEN "stock_status"
    ELSE NoField

\* mutant: the URL is stored under the name key
WithUrls_IntoName(p, tag, attrs) ==
    LET p1 == IF tag = "a" /\ Contains(GetOrEmpty(attrs, "class"), ClsProductItemPhoto)
              THEN [p EXCEPT !.current_product = SetKey(@, "name", Get(attrs, "href"))]
              ELSE p
    IN IF tag = "img" /\ Contains(GetOrEmpty(attrs, "class"), ClsProductImagePhoto)
       THEN [p1 EXCEPT !.current_product = SetKey(@, "image_url", Get(attrs, "src"))]
       ELSE p1

\* the URL attributes copied while a product container is open
WithUrls(p, tag, attrs) ==
    LET p1 == IF tag = "a" /\ Contains(GetOrEmpty(attrs, "class"), ClsProductItemPhoto)
              THEN [p EXCEPT !.current_product =
                        SetKey(@, "product_url", Get(attrs, "href"))]
              ELSE p
    IN IF tag = "img" /\ Contains(GetOrEmpty(attrs, "class"), ClsProductImagePhoto)
       THEN [p1 EXCEPT !.current_product = SetKey(@, "image_url", Get(attrs, "src"))]
       ELSE p1

\* the tail of handle_starttag, run while a product container is open
InsideProduct(p, tag, attrs) ==
    LET p1 == WithUrls(p, tag, attrs)
        f == CaptureTrigger(tag, attrs)
    IN IF f # NoField THEN [p1 EXCEPT !.capture_field = f] ELSE p1

\* mutant: nested div start tags are not counted
NestedDiv_NotCounted(p, tag) == p

\* if self.in_product_div and tag == "div": self.product_div_depth += 1
NestedDiv(p, tag) ==
    IF p.in_product_div /\ tag = "div"
    THEN [p EXCEPT !.product_div_depth = @ + 1] ELSE p

\* handle_starttag raises (ValueError from int) instead of returning
Product_starttag_raises(p, tag, attrs) ==
    /\ ~IsProductsList(tag, attrs)
    /\ IsProductContainer(p, tag, attrs)
    /\ ProductIdRaises(attrs)

\* mutant: capture triggers are honoured outside an item container too
Product_handle_starttag_NoItemGuard(p, tag, attrs) ==
    IF IsProductsList(tag, attrs)
    THEN [p EXCEPT !.in_target_ol = TRUE, !.ol_depth = 1]
    ELSE
    LET p1 == IF p.in_target_ol /\ tag = "ol"
              THEN [p EXCEPT !.ol_depth = @ + 1] ELSE p
    IN
    IF IsProductContainer(p1, tag, attrs)
    THEN IF ProductIdRaises(attrs)
         THEN [p1 EXCEPT !.in_product_div = TRUE, !.product_div_depth = 1]
         ELSE [p1 EXCEPT !.in_product_div = TRUE, !.product_div_depth = 1,
                         !.current_product = NewProduct(attrs)]
    ELSE InsideProduct(NestedDiv(p1, tag), tag, attrs)

\* ProductHTMLParser.handle_starttag: the parser after the call (when the call
\* raises, the assignments made before the raise are kept)
Product_handle_starttag(p, tag, attrs) ==
    IF IsProductsList(tag, attrs)
    THEN [p EXCEPT !.in_target_ol = TRUE, !.ol_depth = 1]
    ELSE
    LET p1 == IF p.in_target_ol /\ tag = "ol"
              THEN [p EXCEPT !.ol_depth = @ + 1] ELSE p
    IN
    IF IsProductContainer(p1, tag, attrs)
    THEN IF ProductIdRaises(attrs)
         THEN [p1 EXCEPT !.in_product_div = TRUE, !.product_div_depth = 1]
         ELSE [p1 EXCEPT !.in_product_div = TRUE, !.product_div_depth = 1,
                         !.current_product = NewProduct(attrs)]
    ELSE
    LET p2 == NestedDiv(p1, tag)
    IN IF ~p2.in_product_div THEN p2 ELSE InsideProduct(p2, tag, attrs)

\* mutant: text is buffered whether or not a capture target is set
Product_handle_data_Always(p, data) ==
    IF Strip(data) # EmptyStr
    THEN [p EXCEPT !.text_buffer = Append(@, Strip(data))]
    ELSE p

\* ProductHTMLParser.handle_data
Product_handle_data(p, data) ==
    IF p.capture_field # NoField /\ Strip(data) # EmptyStr
    THEN [p EXCEPT !.text_buffer = Append(@, Strip(data))]
    ELSE p

\* mutant: the capture is reset only when a value was stored
FlushCapture_KeepWhenEmpty(p) ==
    IF p.capture_field # NoField /\ Strip(Join(<<" ">>, p.text_buffer)) # EmptyStr
    THEN [p EXCEPT !.current_product =
                       SetKey(@, p.capture_field, Strip(Join(<<" ">>, p.text_buffer))),
                   !.text_buffer = <<>>,
                   !.capture_field = NoField]
    ELSE p

\* handle_endtag, first block: store the captured text and reset the capture
FlushCapture(p) ==
    IF p.capture_field # NoField
    THEN LET value == Strip(Join(<<" ">>, p.text_buffer)) IN
         [p EXCEPT !.current_product =
                       IF value # EmptyStr THEN SetKey(@, p.capture_field, value) ELSE @,
                   !.text_buffer = <<>>,
                   !.capture_field = NoField]
    ELSE p

\* mutant: the record is appended at every div end tag inside the container
CloseProductDiv_EveryDiv(p, tag) ==
    IF p.in_product_div /\ tag = "div"
    THEN [p EXCEPT !.product_div_depth = @ - 1,
                   !.products = Append(@, p.current_product),
                   !.current_product = EmptyDict,
                   !.in_product_div = (p.product_div_depth - 1 # 0)]
    ELSE p

\* handle_endtag, second block: a div end tag while a product container is open
CloseProductDiv(p, tag) ==
    IF p.in_product_div /\ tag = "div"
    THEN IF p.product_div_depth - 1 = 0
         THEN [p EXCEPT !.product_div_depth = 0,
                        !.products = Append(@, p.current_product),
                        !.current_product = EmptyDict,
                        !.in_product_div = FALSE]
         ELSE [p EXCEPT !.product_div_depth = @ - 1]
    ELSE p

\* mutant: the last ol end tag leaves the container flag set
CloseOl_KeepFrame(p, tag) ==
    IF p.in_target_ol /\ tag = "ol"
    THEN [p EXCEPT !.ol_depth = @ - 1]
    ELSE p

\* handle_endtag, third block: an ol end tag while the products list is open
CloseOl(p, tag) ==
    IF p.in_target_ol /\ tag = "ol"
    THEN IF p.ol_depth - 1 = 0
         THEN [p EXCEPT !.ol_depth = 0, !.in_target_ol = FALSE]
         ELSE [p EXCEPT !.ol_depth = @ - 1]
    ELSE p

\* ProductHTMLParser.handle_endtag
Product_handle_endtag(p, tag) == CloseOl(CloseProductDiv(FlushCapture(p), tag), tag)

\* ------------------------------------------------------------------------
\* DetailedProductParser (detail extractor)
\* ------------------------------------------------------------------------
ClsBreadcrumbs == <<"breadcrumbs">>
ClsDescriptionWrapper == <<"product-description-wrapper">>
ClsSpecificationsWrapper == <<"product-specifications-wrapper">>
IdTierPriceTable == <<"tier-price-table">>
ItempropName == <<"name">>
ClsHidden == <<"hidden">>
ClsIcon == <<"icon">>
ClsAction == <<"action">>
StrHome == <<"H", "o", "m", "e">>
StrProducts == <<"P", "r", "o", "d", "u", "c", "t", "s">>
StrInStock == <<"i", "n", " ", "s", "t", "o", "c", "k">>
StrBar == <<" ", "|", " ">>

TIER_QUANTITY_INDEX == 3
TIER_PRICE_PIECE_INDEX == 4
TIER_PRICE_BOX_INDEX == 5

UpperLetters ==
    <<"A", "B", "C", "D", "E", "F", "G", "H", "I", "J", "K", "L", "M",
      "N", "O", "P", "Q", "R", "S", "T", "U", "V", "W", "X", "Y", "Z">>
LowerLetters ==
    <<"a", "b", "c", "d", "e", "f", "g", "h", "i", "j", "k", "l", "m",
      "n", "o", "p", "q", "r", "s", "t", "u", "v", "w", "x", "y", "z">>

LowerChar(c) ==
    IF \E i \in 1..26 : UpperLetters[i] = c
    THEN LowerLetters[CHOOSE i \in 1..26 : UpperLetters[i] = c]
    ELSE c

\* str.lower()
Lower(s) == [i \in 1..Len(s) |-> LowerChar(s[i])]

\* a bool as stored in an Optional[bool] field
PyBool(b) == IF b THEN "True" ELSE "False"

\* d[k] = v on an insertion-ordered dict kept as a sequence of <<key, value>>
DictSet(d, k, v) ==
    IF \E i \in 1..Len(d) : d[i][1] = k
    THEN [i \in 1..Len(d) |-> IF d[i][1] = k THEN <<k, v>> ELSE d[i]]
    ELSE Append(d, <<k, v>>)

\* DetailedProductParser.__init__
InitDetailedProductParser ==
    [categories |-> <<>>,
     description |-> None,
     stock_available |-> "None",
     price_tiers |-> <<>>,
     specifications |-> <<>>,
     in_breadcrumbs |-> FALSE,
     breadcrumb_depth |-> 0,
     capture_breadcrumb_name |-> FALSE,
     breadcrumb_buffer |-> <<>>,
     in_description |-> FALSE,
     description_depth |-> 0,
     description_buffer |-> <<>>,
     in_stock_status |-> FALSE,
     stock_buffer |-> <<>>,
     in_tier_price_table |-> FALSE,
     in_tier_price_row |-> FALSE,
     tier_cell_index |-> 0,
     tier_quantity |-> None,
     tier_price_piece |-> None,
     tier_price_box |-> None,
     tier_price_current_cell_skip |-> FALSE,
     in_specifications |-> FALSE,
     spec_depth |-> 0,
     in_spec_dl |-> FALSE,
     current_spec_label |-> None,
     spec_label_buffer |-> <<>>,
     spec_value_buffer |-> <<>>]

IsBreadcrumbsDiv(tag, attrs) == tag = "div" /\ Get(attrs, "class") = ClsBreadcrumbs

IsDescriptionDiv(tag, attrs) ==
    tag = "div" /\ Get(attrs, "class") = ClsDescriptionWrapper

IsStockDiv(tag, attrs) ==
    tag = "div" /\ StartsWith(GetOrEmpty(attrs, "class"), ClsStock)

IsTierTable(tag, attrs) == tag = "table" /\ Get(attrs, "id") = IdTierPriceTable

HasSpecificationsClass(attrs) ==
    Contains(GetOrEmpty(attrs, "class"), ClsSpecificationsWrapper)

\* DetailedProductParser._start_breadcrumb
start_breadcrumb(d, tag, attrs) ==
    IF IsBreadcrumbsDiv(tag, attrs)
    THEN [d EXCEPT !.in_breadcrumbs = TRUE, !.breadcrumb_depth = 1]
    ELSE IF tag = "span" /\ Get(attrs, "itemprop") = ItempropName
    THEN [d EXCEPT !.capture_breadcrumb_name = TRUE]
    ELSE IF tag \in {"ul", "li"}
    THEN [d EXCEPT !.breadcrumb_depth = @ + 1]
    ELSE d

\* DetailedProductParser._start_description
start_description(d, tag) ==
    IF tag = "div"
    THEN IF ~d.in_description
         THEN [d EXCEPT !.in_description = TRUE, !.description_depth = 1]
         ELSE [d EXCEPT !.description_depth = @ + 1]
    ELSE IF tag \in {"ul", "li"}
    THEN [d EXCEPT !.description_depth = @ + 1]
    ELSE d

\* DetailedProductParser._start_tier_price
start_tier_price(d, tag, attrs) ==
    IF IsTierTable(tag, attrs)
    THEN [d EXCEPT !.in_tier_price_table = TRUE]
    ELSE IF tag = "tr"
    THEN [d EXCEPT !.in_tier_price_row = TRUE,
                   !.tier_cell_index = 0,
                   !.tier_quantity = None,
                   !.tier_price_piece = None,
                   !.tier_price_box = None]
    ELSE IF tag = "td" /\ d.in_tier_price_row
    THEN LET td_class == GetOrEmpty(attrs, "class") IN
         [d EXCEPT !.tier_cell_index = @ + 1,
                   !.tier_price_current_cell_skip =
                       \/ Contains(td_class, ClsHidden)
                       \/ Contains(td_class, ClsIcon)
                       \/ Contains(td_class, ClsAction)]
    ELSE d

\* DetailedProductParser._start_specifications
start_specifications(d, tag, attrs) ==
    IF tag = "div"
    THEN IF HasSpecificationsClass(attrs)
         THEN [d EXCEPT !.in_specifications = TRUE, !.spec_depth = 1]
         ELSE [d EXCEPT !.spec_depth = @ + 1]
    ELSE IF tag = "dl" THEN [d EXCEPT !.in_spec_dl = TRUE]
    ELSE IF tag = "dt" THEN [d EXCEPT !.spec_label_buffer = <<>>]
    ELSE IF tag = "dd" THEN [d EXCEPT !.spec_value_buffer = <<>>]
    ELSE d

\* the description branch of handle_starttag
DescriptionStart(d, tag, attrs) ==
    IF IsDescriptionDiv(tag, attrs)
    THEN [d EXCEPT !.in_description = TRUE, !.description_depth = 1]
    ELSE IF d.in_description THEN start_description(d, tag)
    ELSE d

\* mutant: the stock test is made before the description branch
Detailed_handle_starttag_StockFirst(d, tag, attrs) ==
    IF d.in_breadcrumbs THEN start_breadcrumb(d, tag, attrs)
    ELSE IF IsBreadcrumbsDiv(tag, attrs) THEN start_breadcrumb(d, tag, attrs)
    ELSE IF IsStockDiv(tag, attrs) THEN [d EXCEPT !.in_stock_status = TRUE]
    ELSE IF d.in_description \/ IsDescriptionDiv(tag, attrs)
    THEN DescriptionStart(d, tag, attrs)
    ELSE IF d.in_tier_price_table \/ IsTierTable(tag, attrs)
    THEN start_tier_price(d, tag, attrs)
    ELSE IF d.in_specifications \/ HasSpecificationsClass(attrs)
    THEN start_specifications(d, tag, attrs)
    ELSE d

\* DetailedProductParser.handle_starttag
Detailed_handle_starttag(d, tag, attrs) ==
    IF d.in_breadcrumbs THEN start_breadcrumb(d, tag, attrs)
    ELSE IF IsBreadcrumbsDiv(tag, attrs) THEN start_breadcrumb(d, tag, attrs)
    ELSE IF d.in_description \/ IsDescriptionDiv(tag, attrs)
    THEN DescriptionStart(d, tag, attrs)
    ELSE IF IsStockDiv(tag, attrs) THEN [d EXCEPT !.in_stock_status = TRUE]
    ELSE IF d.in_tier_price_table \/ IsTierTable(tag, attrs)
    THEN start_tier_price(d, tag, attrs)
    ELSE IF d.in_specifications \/ HasSpecificationsClass(attrs)
    THEN start_specifications(d, tag, attrs)
    ELSE d

\* handle_data, the tier-price block
TierData(d, stripped) ==
    IF /\ d.in_tier_price_row
       /\ d.in_tier_price_table
       /\ stripped # EmptyStr
       /\ ~d.tier_price_current_cell_skip
    THEN IF d.tier_cell_index = TIER_QUANTITY_INDEX /\ d.tier_quantity = None
         THEN [d EXCEPT !.tier_quantity = stripped]
         ELSE IF d.tier_cell_index = TIER_PRICE_PIECE_INDEX /\ d.tier_price_piece = None
         THEN [d EXCEPT !.tier_price_piece = stripped]
         ELSE IF d.tier_cell_index = TIER_PRICE_BOX_INDEX /\ d.tier_price_box = None
         THEN [d EXCEPT !.tier_price_box = stripped]
         ELSE d
    ELSE d

\* handle_data, the specification block
SpecData(d, stripped) ==
    IF d.in_spec_dl /\ stripped # EmptyStr
    THEN IF d.current_spec_label = None
         THEN [d EXCEPT !.spec_label_buffer = Append(@, stripped)]
         ELSE [d EXCEPT !.spec_value_buffer = Append(@, stripped)]
    ELSE d

\* DetailedProductParser.handle_data
Detailed_handle_data(d, data) ==
    LET stripped == Strip(data)
        d1 == IF d.capture_breadcrumb_name /\ stripped # EmptyStr
              THEN [d EXCEPT !.breadcrumb_buffer = Append(@, stripped)] ELSE d
        d2 == IF d1.in_description /\ stripped # EmptyStr
              THEN [d1 EXCEPT !.description_buffer = Append(@, stripped)] ELSE d1
        d3 == IF d2.in_stock_status /\ stripped # EmptyStr
              THEN [d2 EXCEPT !.stock_buffer = Append(@, stripped)] ELSE d2
    IN SpecData(TierData(d3, stripped), stripped)

\* mutant: only 'Home' is left out of the categories
end_breadcrumb_KeepProducts(d, tag) ==
    IF tag = "span" /\ d.capture_breadcrumb_name
    THEN LET breadcrumb_name == Strip(Join(<<" ">>, d.breadcrumb_buffer)) IN
         [d EXCEPT !.categories =
                       IF breadcrumb_name # EmptyStr
                          /\ breadcrumb_name \notin {StrHome}
                       THEN Append(@, breadcrumb_name) ELSE @,
                   !.breadcrumb_buffer = <<>>,
                   !.capture_breadcrumb_name = FALSE]
    ELSE IF tag \in {"li", "ul"}
    THEN [d EXCEPT !.breadcrumb_depth = @ - 1]
    ELSE IF tag = "div" /\ d.breadcrumb_depth = 1
    THEN [d EXCEPT !.in_breadcrumbs = FALSE]
    ELSE d

\* DetailedProductParser._end_breadcrumb
end_breadcrumb(d, tag) ==
    IF tag = "span" /\ d.capture_breadcrumb_name
    THEN LET breadcrumb_name == Strip(Join(<<" ">>, d.breadcrumb_buffer)) IN
         [d EXCEPT !.categories =
                       IF breadcrumb_name # EmptyStr
                          /\ breadcrumb_name \notin {StrHome, StrProducts}
                       THEN Append(@, breadcrumb_name) ELSE @,
                   !.breadcrumb_buffer = <<>>,
                   !.capture_breadcrumb_name = FALSE]
    ELSE IF tag \in {"li", "ul"}
    THEN [d EXCEPT !.breadcrumb_depth = @ - 1]
    ELSE IF tag = "div" /\ d.breadcrumb_depth = 1
    THEN [d EXCEPT !.in_breadcrumbs = FALSE]
    ELSE d

\* mutant: each fragment replaces the description
end_description_Overwrite(d, tag) ==
    IF tag = "li"
    THEN LET desc_item == Strip(Join(<<" ">>, d.description_buffer)) IN
         [d EXCEPT !.description =
                       IF desc_item # EmptyStr
                       THEN desc_item
                       ELSE @,
                   !.description_buffer = <<>>,
                   !.description_depth = @ - 1]
    ELSE IF tag = "ul"
    THEN [d EXCEPT !.description_depth = @ - 1]
    ELSE IF tag = "div" /\ d.description_depth = 1
    THEN [d EXCEPT !.in_description = FALSE]
    ELSE d

\* DetailedProductParser._end_description
end_description(d, tag) ==
    IF tag = "li"
    THEN LET desc_item == Strip(Join(<<" ">>, d.description_buffer)) IN
         [d EXCEPT !.description =
                       IF desc_item # EmptyStr
                       THEN IF @ = None THEN desc_item ELSE @ \o StrBar \o desc_item
                       ELSE @,
                   !.description_buffer = <<>>,
                   !.description_depth = @ - 1]
    ELSE IF tag = "ul"
    THEN [d EXCEPT !.description_depth = @ - 1]
    ELSE IF tag = "div" /\ d.description_depth = 1
    THEN [d EXCEPT !.in_description = FALSE]
    ELSE d

\* mutant: a row is appended as soon as its quantity and piece price are set
end_tier_price_TwoOfThree(d, tag) ==
    IF tag = "td" /\ d.in_tier_price_row
    THEN [d EXCEPT !.tier_price_current_cell_skip = FALSE]
    ELSE IF tag = "tr" /\ d.in_tier_price_row
    THEN [d EXCEPT !.price_tiers =
                       IF Truthy(d.tier_quantity) /\ Truthy(d.tier_price_piece)
                       THEN Append(@, [quantity |-> d.tier_quantity,
                                       price_per_piece |-> d.tier_price_piece,
                                       price_per_box |-> d.tier_price_box])
                       ELSE @,
                   !.in_tier_price_row = FALSE,
                   !.tier_cell_index = 0]
    ELSE IF tag = "table"
    THEN [d EXCEPT !.in_tier_price_table = FALSE]
    ELSE d

\* DetailedProductParser._end_tier_price
end_tier_price(d, tag) ==
    IF tag = "td" /\ d.in_tier_price_row
    THEN [d EXCEPT !.tier_price_current_cell_skip = FALSE]
    ELSE IF tag = "tr" /\ d.in_tier_price_row
    THEN [d EXCEPT !.price_tiers =
                       IF /\ Truthy(d.tier_quantity)
                          /\ Truthy(d.tier_price_piece)
                          /\ Truthy(d.tier_price_box)
                       THEN Append(@, [quantity |-> d.tier_quantity,
                                       price_per_piece |-> d.tier_price_piece,
                                       price_per_box |-> d.tier_price_box])
                       ELSE @,
                   !.in_tier_price_row = FALSE,
                   !.tier_cell_index = 0]
    ELSE IF tag = "table"
    THEN [d EXCEPT !.in_tier_price_table = FALSE]
    ELSE d

\* DetailedProductParser._end_specifications
end_specifications(d, tag) ==
    IF tag = "dt"
    THEN IF d.spec_label_buffer # <<>>
         THEN [d EXCEPT !.current_spec_label = Strip(Join(<<" ">>, d.spec_label_buffer))]
         ELSE d
    ELSE IF tag = "dd"
    THEN IF Truthy(d.current_spec_label) /\ d.spec_value_buffer # <<>>
         THEN [d EXCEPT !.specifications =
                            DictSet(@, d.current_spec_label,
                                    Strip(Join(<<" ">>, d.spec_value_buffer))),
                        !.current_spec_label = None,
                        !.spec_value_buffer = <<>>]
         ELSE [d EXCEPT !.spec_value_buffer = <<>>]
    ELSE IF tag = "dl"
    THEN [d EXCEPT !.in_spec_dl = FALSE, !.current_spec_label = None]
    ELSE IF tag = "div"
    THEN IF d.spec_depth - 1 = 0
         THEN [d EXCEPT !.spec_depth = 0, !.in_specifications = FALSE]
         ELSE [d EXCEPT !.spec_depth = @ - 1]
    ELSE d

\* mutant: the stock text is searched without lower-casing it
EndStock_CaseSensitive(d, tag) ==
    IF tag = "div" /\ d.stock_buffer # <<>>
    THEN LET status_text == Strip(Join(<<" ">>, d.stock_buffer)) IN
         [d EXCEPT !.stock_available = PyBool(Contains(status_text, StrInStock)),
                   !.stock_buffer = <<>>,
                   !.in_stock_status = FALSE]
    ELSE d

\* handle_endtag, the stock branch
EndStock(d, tag) ==
    IF tag = "div" /\ d.stock_buffer # <<>>
    THEN LET status_text == Lower(Strip(Join(<<" ">>, d.stock_buffer))) IN
         [d EXCEPT !.stock_available = PyBool(Contains(status_text, StrInStock)),
                   !.stock_buffer = <<>>,
                   !.in_stock_status = FALSE]
    ELSE d

\* mutant: after the breadcrumb handler the end tag goes on to the other regions
Detailed_handle_endtag_FallThrough(d, tag) ==
    LET d1 == IF d.in_breadcrumbs THEN end_breadcrumb(d, tag) ELSE d
    IN  IF d1.in_description THEN end_description(d1, tag)
        ELSE IF d1.in_stock_status THEN EndStock(d1, tag)
        ELSE IF d1.in_tier_price_table THEN end_tier_price(d1, tag)
        ELSE IF d1.in_specifications THEN end_specifications(d1, tag)
        ELSE d1

\* DetailedProductParser.handle_endtag
Detailed_handle_endtag(d, tag) ==
    IF d.in_breadcrumbs THEN end_breadcrumb(d, tag)
    ELSE IF d.in_description THEN end_description(d, tag)
    ELSE IF d.in_stock_status THEN EndStock(d, tag)
    ELSE IF d.in_tier_price_table THEN end_tier_price(d, tag)
    ELSE IF d.in_specifications THEN end_specifications(d, tag)
    ELSE d

\* ------------------------------------------------------------------------
\* The state machine
\* ------------------------------------------------------------------------
VARIABLES
    parser,       \* the ProductHTMLParser instance being fed
    twin,         \* a second ProductHTMLParser instance, fed a variant document
    detail,       \* the DetailedProductParser instance being fed
    pc,           \* "feeding" | "raised" (feed raised) | "done" (feed returned)
    n,            \* number of tokenizer events fed so far
    last,         \* [kind, tag] of the last event handled
    stack,        \* open elements of the document (well-formed documents only)
    closedOnce,   \* history: the products list frame was open and has closed
    itemsClosed,  \* history: ids of the item containers closed inside a list
    heard,        \* history: [field, text] since the first trigger after an end tag,
                  \* and the capture target under which each text arrived
    watch,        \* history: the text of one whole trigger element
    phase,        \* twin document: "none" | "open" | "done" (the extra div pair)
    xendCap,      \* twin document: a capture target was set at the extra end tag
    doc,          \* history: what the generated detail page holds so far
    client        \* the MawsAsyncClient and its run of download_all_products

vars ==
    <<parser, twin, detail, pc, n, last, stack, closedOnce, itemsClosed, heard,
      watch, phase, xendCap, doc, client>>

\* before any call: the limiter of a fresh client (asyncio.Semaphore(1)) and no run
NoClient == [limiter |-> 1, pc |-> "idle"]

NoHeard == [field |-> NoField, text |-> <<>>, under |-> <<>>]
\* pos: where the generator is; text: text of the open leaf element; parts: what
\* the open group holds; out: what the finished groups hold, in document order
NoDoc == [pos |-> "none", text |-> <<>>, parts |-> <<>>, out |-> <<>>]
NoWatch == [on |-> FALSE, done |-> FALSE, depth |-> 0, field |-> NoField, text |-> <<>>]

Init ==
    /\ parser = InitProductHTMLParser
    /\ twin = InitProductHTMLParser
    /\ detail = InitDetailedProductParser
    /\ pc = "feeding"
    /\ n = 0
    /\ last = [kind |-> "init", tag |-> ""]
    /\ stack = <<>>
    /\ closedOnce = FALSE
    /\ itemsClosed = <<>>
    /\ heard = NoHeard
    /\ watch = NoWatch
    /\ phase = "none"
    /\ xendCap = FALSE
    /\ client = NoClient
    /\ doc = NoDoc

Ev(tag, attrs) == [tag |-> tag, attrs |-> attrs]

\* A capture trigger that reaches the if/elif chain of handle_starttag.
TriggerFires(p, ev) ==
    /\ p.in_product_div
    /\ ~IsProductsList(ev.tag, ev.attrs)
    /\ ~IsProductContainer(p, ev.tag, ev.attrs)
    /\ CaptureTrigger(ev.tag, ev.attrs) # NoField

HeardAfterStart(ev) ==
    IF TriggerFires(parser, ev)
    THEN [heard EXCEPT !.field = CaptureTrigger(ev.tag, ev.attrs)]
    ELSE heard

HeardAfterData(data) ==
    IF heard.field # NoField /\ Strip(data) # EmptyStr
    THEN [heard EXCEPT !.text = Append(@, Strip(data)), !.under = Append(@, heard.field)]
    ELSE heard

\* One call of parser.handle_starttag made by feed().
ListingStart(ev) ==
    /\ parser' = Product_handle_starttag(parser, ev.tag, ev.attrs)
    /\ pc' = IF Product_starttag_raises(parser, ev.tag, ev.attrs) THEN "raised" ELSE pc
    /\ n' = n + 1
    /\ last' = [kind |-> "start", tag |-> ev.tag]
    /\ heard' = HeardAfterStart(ev)
    /\ closedOnce' = closedOnce

\* One call of parser.handle_data made by feed().
ListingData(data) ==
    /\ parser' = Product_handle_data(parser, data)
    /\ pc' = pc
    /\ n' = n + 1
    /\ last' = [kind |-> "data", tag |-> ""]
    /\ heard' = HeardAfterData(data)
    /\ closedOnce' = closedOnce

\* One call of parser.handle_endtag made by feed().
ListingEnd(tag) ==
    /\ parser' = Product_handle_endtag(parser, tag)
    /\ pc' = pc
    /\ n' = n + 1
    /\ last' = [kind |-> "end", tag |-> tag]
    /\ heard' = NoHeard
    /\ closedOnce' = (closedOnce \/ (parser.in_target_ol /\ ~parser'.in_target_ol))

\* feed() returns; _parse_products_from_html then reads parser.products.
Finish ==
    /\ pc = "feeding"
    /\ pc' = "done"
    /\ last' = [kind |-> "eof", tag |-> ""]
    /\ UNCHANGED <<client, doc, parser, twin, detail, n, stack, closedOnce, itemsClosed, heard,
                   watch, phase, xendCap>>

\* ---------------------------------------------- Spec: any event sequence
IdValues == {None, EmptyStr, <<"4">>, <<"x">>}

ItemInfo(id) == Ev("div", [WithClass(ClsProductItemInfo) EXCEPT !.data_product_id = id])

StartTags ==
    {Ev("ol", WithClass(ClsProductsList)), Ev("ol", NoAttrs), Ev("div", NoAttrs),
     Ev("a", WithClass(ClsProductItemLink))}
    \cup {ItemInfo(id) : id \in IdValues}

Texts == {<<" ">>, <<"w">>}

EndTags == {"ol", "div", "a"}

StartTag ==
    /\ pc = "feeding" /\ n < MaxEvents
    /\ \E ev \in StartTags : ListingStart(ev)
    /\ UNCHANGED <<client, doc, twin, detail, stack, itemsClosed, watch, phase, xendCap>>

Data ==
    /\ pc = "feeding" /\ n < MaxEvents
    /\ \E data \in Texts : ListingData(data)
    /\ UNCHANGED <<client, doc, twin, detail, stack, itemsClosed, watch, phase, xendCap>>

EndTag ==
    /\ pc = "feeding" /\ n < MaxEvents
    /\ \E tag \in EndTags : ListingEnd(tag)
    /\ UNCHANGED <<client, doc, twin, detail, stack, itemsClosed, watch, phase, xendCap>>

Next == StartTag \/ Data \/ EndTag \/ Finish

Spec == Init /\ [][Next]_vars

\* ------------------------------------------------------------------------
\* Claims checked under Spec (any event sequence, balanced or not)
\* ------------------------------------------------------------------------
ItemFrameOpens == ~parser.in_product_div /\ parser'.in_product_div

\* C3 (as stated): once the products list frame has closed, no further item is
\* collected for the rest of the pass: no item frame opens any more, even inside
\* a later ol whose class is exactly "products list items product-items".
C3_NoItemsAfterClose == [][closedOnce => ~ItemFrameOpens]_vars

\* C3 (amended): once the products list frame has closed, item containers are
\* ignored for as long as the frame stays closed (no item frame opens and no
\* record is appended without an open item frame); the frame re-opens, at depth
\* 1, at a later ol start tag with the exact class, and items are collected again.
C3_NoItemsWhileClosed ==
    [][(closedOnce /\ ~parser.in_target_ol)
         => /\ ~ItemFrameOpens
            /\ (~parser.in_product_div => parser'.products = parser.products)
            /\ (parser'.in_target_ol =>
                    last'.kind = "start" /\ last'.tag = "ol" /\ parser'.ol_depth = 1)]_vars

\* C3 witness: after the frame closed, a later matching list re-opened it and an
\* item inside that later list is being collected.
C3_Witness ==
    closedOnce /\ parser.in_target_ol /\ parser.in_product_div /\ last.kind = "start"

\* C5 (as stated): an item container whose data-product-id is absent, empty or
\* non-numeric never makes the extractor fail, and its record has identifier 0.
C5_BadIdGivesZero ==
    [][\A id \in IdValues :
          (/\ ~(Truthy(id) /\ PyInt(id).ok)
           /\ pc = "feeding"
           /\ parser.in_target_ol
           /\ last'.kind = "start"
           /\ parser' = Product_handle_starttag(parser, "div", ItemInfo(id).attrs))
          => (pc' = "feeding" /\ parser'.current_product["product_id"] = 0)]_vars

\* C8: a record is appended only by a div end tag that takes the item frame's
\* depth from 1 to 0 and closes the frame; exactly one record is appended then,
\* and nothing is appended when the input ends with an item left open.
C8_AppendOnlyAtDepthZero ==
    [][parser'.products # parser.products
         => /\ last'.kind = "end" /\ last'.tag = "div"
            /\ parser.in_product_div /\ parser.product_div_depth = 1
            /\ ~parser'.in_product_div /\ parser'.product_div_depth = 0
            /\ Len(parser'.products) = Len(parser.products) + 1
            /\ SubSeq(parser'.products, 1, Len(parser.products)) = parser.products]_vars

\* C8 witness: one item was emitted, and the input ended with a second item left
\* open at depth 2, which was not emitted.
C8_Witness ==
    /\ pc = "done"
    /\ Len(parser.products) = 1
    /\ parser.in_product_div /\ parser.product_div_depth = 2

\* C10: right after any end tag the capture target is None and the text buffer
\* is empty; the buffer is empty whenever no capture target is set, so text that
\* follows an end tag reaches no field before a new trigger start tag.
C10_EndTagResetsCapture ==
    /\ (last.kind = "end" => parser.capture_field = NoField /\ parser.text_buffer = <<>>)
    /\ (parser.capture_field = NoField => parser.text_buffer = <<>>)

\* C10 witness: an end tag (not the trigger's own) has just flushed a captured
\* name and reset the capture.
C10_Witness ==
    /\ last.kind = "end" /\ last.tag = "ol"
    /\ parser.in_product_div
    /\ "name" \in DOMAIN parser.current_product
    /\ parser.capture_field = NoField

\* C25: in every reachable state the container flag is set exactly when the
\* container depth is at least 1, and the item flag exactly when the item depth
\* is at least 1.
C25_FlagsMatchDepths ==
    /\ parser.in_target_ol <=> parser.ol_depth >= 1
    /\ parser.in_product_div <=> parser.product_div_depth >= 1

\* C25 witness: the container has closed (flag off, depth 0) while an item
\* frame is still open at depth 2.
C25_Witness ==
    /\ closedOnce /\ ~parser.in_target_ol /\ parser.ol_depth = 0
    /\ parser.in_product_div /\ parser.product_div_depth = 2

\* C26: a capture target is set only while an item frame is open, and outside
\* an item frame the current record is the blank placeholder: no captured value
\* is ever written into it.
C26_CaptureOnlyInsideItem ==
    /\ parser.capture_field # NoField => parser.in_product_div
    /\ ~parser.in_product_div => parser.current_product = EmptyDict

\* C26 witness: a div end tag arrived while the name was being captured; it
\* stored the name, reset the capture and then closed the item.
C26_Witness ==
    /\ n = 5
    /\ last.kind = "end" /\ last.tag = "div"
    /\ ~parser.in_product_div /\ parser.capture_field = NoField
    /\ Len(parser.products) = 1 /\ "name" \in DOMAIN parser.products[1]

\* ------------------------------------------------------------------------
\* SpecWF: well-formed documents (every end tag closes the innermost open
\* element), fed to the listing extractor
\* ------------------------------------------------------------------------
IsItemInfoTag(ev) == ev.tag = "div" /\ Get(ev.attrs, "class") = ClsProductItemInfo

\* The document's own view of an element, kept on the stack of open elements.
Entry(ev) ==
    [tag |-> ev.tag,
     kind |-> IF IsProductsList(ev.tag, ev.attrs) THEN "list"
              ELSE IF IsItemInfoTag(ev) THEN "item" ELSE "other",
     id |-> IF IsItemInfoTag(ev) THEN ProductIdOf(ev.attrs) ELSE 0]

Top == stack[Len(stack)]
Pop == SubSeq(stack, 1, Len(stack) - 1)
InsideList == \E i \in 1..(Len(stack) - 1) : stack[i].kind = "list"

\* watch follows one trigger element from its start tag to its own end tag and
\* gathers all the text inside it.
WatchAfterStart(ev) ==
    IF ~watch.on /\ TriggerFires(parser, ev)
    THEN [on |-> TRUE, done |-> FALSE, depth |-> Len(stack) + 1,
          field |-> CaptureTrigger(ev.tag, ev.attrs), text |-> <<>>]
    ELSE [watch EXCEPT !.done = FALSE]

WatchAfterData(data) ==
    IF watch.on /\ Strip(data) # EmptyStr
    THEN [watch EXCEPT !.text = Append(@, Strip(data))]
    ELSE [watch EXCEPT !.done = FALSE]

WatchAfterEnd ==
    IF watch.on /\ Len(stack) = watch.depth
    THEN [watch EXCEPT !.on = FALSE, !.done = TRUE]
    ELSE [watch EXCEPT !.done = FALSE]

StartTagsWF ==
    {Ev("ol", WithClass(ClsProductsList)), Ev("div", NoAttrs),
     Ev("a", WithClass(ClsProductItemLink)), Ev("span", NoAttrs),
     Ev("div", WithClass(ClsProductItemBrand)),
     ItemInfo(None), ItemInfo(<<"4">>)}

TextsWF == {<<" ">>, <<"w">>}

StartTagWF ==
    /\ pc = "feeding" /\ n < MaxEventsWF /\ Len(stack) < MaxDepthWF
    /\ \E ev \in StartTagsWF :
          /\ ListingStart(ev)
          /\ stack' = Append(stack, Entry(ev))
          /\ watch' = WatchAfterStart(ev)
    /\ UNCHANGED <<client, doc, twin, detail, itemsClosed, phase, xendCap>>

DataWF ==
    /\ pc = "feeding" /\ n < MaxEventsWF
    /\ \E data \in TextsWF :
          /\ ListingData(data)
          /\ watch' = WatchAfterData(data)
    /\ UNCHANGED <<client, doc, twin, detail, stack, itemsClosed, phase, xendCap>>

EndTagWF ==
    /\ pc = "feeding" /\ n < MaxEventsWF /\ stack # <<>>
    /\ ListingEnd(Top.tag)
    /\ stack' = Pop
    /\ itemsClosed' = IF Top.kind = "item" /\ InsideList
                      THEN Append(itemsClosed, Top.id) ELSE itemsClosed
    /\ watch' = WatchAfterEnd
    /\ UNCHANGED <<client, doc, twin, detail, phase, xendCap>>

NextWF == StartTagWF \/ DataWF \/ EndTagWF \/ Finish

SpecWF == Init /\ [][NextWF]_vars

ProductIds(products) == [i \in 1..Len(products) |-> products[i]["product_id"]]

\* C1 (as stated): for a complete well-formed document, the emitted records are,
\* in document order, exactly the item containers (div.product-item-info with its
\* matching end tag) that lie inside a products list element.
C1_OneRecordPerItem ==
    (stack = <<>> /\ pc # "raised") => ProductIds(parser.products) = itemsClosed

ListElementOpen == \E i \in 1..Len(stack) : stack[i].kind = "list"

\* C22 (as stated): a further ol start tag inside the open container, a nested
\* ol with the products-list class included, only deepens the container, so the
\* container frame stays open for as long as the ol that opened it is open.
C22_FrameOpenWhileListOpen == ListElementOpen => parser.in_target_ol

\* The record that holds the current item's fields: the open item's dict, or the
\* record just emitted when the end tag closed the item.
ItemRecord(p) ==
    IF p.in_product_div THEN p.current_product
    ELSE IF p.products # <<>> THEN p.products[Len(p.products)]
    ELSE EmptyDict

FieldOf(rec, f) == IF f \in DOMAIN rec THEN rec[f] ELSE None

\* C9 (as stated): a trigger's field absorbs all text up to the trigger tag's own
\* matching end tag; the value stored then is the space-joined text of the whole
\* trigger element, text after a nested child element included.
C9_WholeElementText ==
    (watch.done /\ watch.text # <<>>)
        => FieldOf(ItemRecord(parser), watch.field) = Strip(Join(<<" ">>, watch.text))

\* C9 (amended): a trigger's field absorbs text only up to the next end tag of
\* any name.  At that end tag the value stored, in the field of the latest trigger
\* start tag, is the space-joined text received since the first trigger start tag
\* that followed the previous end tag (the field is left as it was when no text
\* was received); text received while no trigger is pending changes nothing.
C9_TextUpToNextEndTag ==
    [][/\ (last'.kind = "end" /\ heard.field # NoField /\ pc = "feeding")
            => FieldOf(ItemRecord(parser'), heard.field) =
                   IF heard.text # <<>> THEN Strip(Join(<<" ">>, heard.text))
                   ELSE FieldOf(parser.current_product, heard.field)
       /\ (last'.kind = "data" /\ heard.field = NoField) => parser' = parser]_vars

\* C9 witness: inside a still open <a class="product-item-link"> the end tag of
\* a child element has stored the name heard so far and ended the capture.
C9_Witness ==
    /\ watch.on /\ watch.field = "name" /\ watch.text = << <<"w">> >>
    /\ last.kind = "end" /\ last.tag = "span"
    /\ parser.capture_field = NoField
    /\ FieldOf(ItemRecord(parser), "name") = <<"w">>

RECURSIVE TextsUnder(_, _, _)
TextsUnder(texts, under, field) ==
    IF texts = <<>> THEN <<>>
    ELSE (IF Head(under) = field THEN <<Head(texts)>> ELSE <<>>)
             \o TextsUnder(Tail(texts), Tail(under), field)

\* C24 (as stated): text received while the capture target is field F is stored
\* only into field F: the value an end tag stores into the pending target's
\* field is the space-joined text received while that field was the target, and
\* text received under an earlier, different target is not part of it.
C24_TextStoredInItsOwnField ==
    [][(last'.kind = "end" /\ heard.field # NoField /\ pc = "feeding")
          => LET own == TextsUnder(heard.text, heard.under, heard.field)
             IN  FieldOf(ItemRecord(parser'), heard.field) =
                     IF own # <<>> THEN Strip(Join(<<" ">>, own))
                     ELSE FieldOf(parser.current_product, heard.field)]_vars

\* ------------------------------------------------------------------------
\* SpecTwin: a well-formed document is fed to parser, and the same document
\* with one extra balanced <div>...</div> pair inside an item is fed to twin
\* ------------------------------------------------------------------------
ExtraDiv == [tag |-> "div", kind |-> "extra", id |-> 0]

\* The document position lies inside an item container of a products list.
InsideItem ==
    \E i, j \in 1..Len(stack) : i < j /\ stack[i].kind = "list" /\ stack[j].kind = "item"

StartTagsTwin ==
    {Ev("ol", WithClass(ClsProductsList)), Ev("div", NoAttrs),
     Ev("a", WithClass(ClsProductItemLink)), ItemInfo(<<"4">>)}

TextsTwin == {<<"w">>}

StartTagTwin ==
    /\ pc = "feeding" /\ n < MaxEventsTwin /\ Len(stack) < MaxDepthTwin
    /\ \E ev \in StartTagsTwin :
          /\ ListingStart(ev)
          /\ twin' = Product_handle_starttag(twin, ev.tag, ev.attrs)
          /\ stack' = Append(stack, Entry(ev))
    /\ UNCHANGED <<client, doc, detail, itemsClosed, watch, phase, xendCap>>

DataTwin ==
    /\ pc = "feeding" /\ n < MaxEventsTwin
    /\ \E data \in TextsTwin :
          /\ ListingData(data)
          /\ twin' = Product_handle_data(twin, data)
    /\ UNCHANGED <<client, doc, detail, stack, itemsClosed, watch, phase, xendCap>>

EndTagTwin ==
    /\ pc = "feeding" /\ n < MaxEventsTwin /\ stack # <<>> /\ Top.kind # "extra"
    /\ ListingEnd(Top.tag)
    /\ twin' = Product_handle_endtag(twin, Top.tag)
    /\ stack' = Pop
    /\ UNCHANGED <<client, doc, detail, itemsClosed, watch, phase, xendCap>>

\* The extra pair's start tag: only twin sees it.
InsertStart ==
    /\ pc = "feeding" /\ phase = "none" /\ InsideItem
    /\ twin' = Product_handle_starttag(twin, "div", NoAttrs)
    /\ stack' = Append(stack, ExtraDiv)
    /\ phase' = "open"
    /\ UNCHANGED <<client, doc, parser, detail, pc, n, last, closedOnce, itemsClosed, heard, watch,
                   xendCap>>

\* The extra pair's end tag: only twin sees it.
InsertEnd ==
    /\ pc = "feeding" /\ phase = "open" /\ stack # <<>> /\ Top.kind = "extra"
    /\ twin' = Product_handle_endtag(twin, "div")
    /\ stack' = Pop
    /\ phase' = "done"
    /\ xendCap' = (twin.capture_field # NoField)
    /\ UNCHANGED <<client, doc, parser, detail, pc, n, last, closedOnce, itemsClosed, heard,
                   watch>>

NextTwin == StartTagTwin \/ DataTwin \/ EndTagTwin \/ InsertStart \/ InsertEnd \/ Finish

SpecTwin == Init /\ [][NextTwin]_vars

\* C4 (as stated): an extra balanced <div>...</div> pair, with no class, at any
\* position inside an item changes neither the records emitted nor their fields.
C4_ExtraDivAnywhere == phase = "done" => twin.products = parser.products

\* C4 (amended): an extra balanced <div>...</div> pair inside an item whose end
\* tag falls where no capture target is set leaves the extractor, once the pair
\* is closed, in exactly the state of the original pass: the same records with
\* the same fields are emitted, one per item.
C4_ExtraDivOutsideCapture == (phase = "done" /\ ~xendCap) => twin = parser

\* C4 witness: the pair was inserted inside an item, outside any capture, and the
\* item has been emitted with its name by both passes.
C4_Witness ==
    /\ phase = "done" /\ ~xendCap
    /\ Len(parser.products) = 1
    /\ FieldOf(parser.products[1], "name") = <<"w">>
    /\ twin.products = parser.products

\* ------------------------------------------------------------------------
\* SpecDetail: any event sequence fed to the detail extractor
\* ------------------------------------------------------------------------
ClsStockAvailable == <<"stock", " ", "available">>

DetailStart(ev) ==
    /\ detail' = Detailed_handle_starttag(detail, ev.tag, ev.attrs)
    /\ n' = n + 1
    /\ last' = [kind |-> "start", tag |-> ev.tag]

DetailData(data) ==
    /\ detail' = Detailed_handle_data(detail, data)
    /\ n' = n + 1
    /\ last' = [kind |-> "data", tag |-> ""]

DetailEnd(tag) ==
    /\ detail' = Detailed_handle_endtag(detail, tag)
    /\ n' = n + 1
    /\ last' = [kind |-> "end", tag |-> tag]

StartTagsDetail ==
    {Ev("div", WithClass(ClsBreadcrumbs)), Ev("div", WithClass(ClsDescriptionWrapper)),
     Ev("div", WithClass(ClsStockAvailable)),
     Ev("table", [NoAttrs EXCEPT !.id = IdTierPriceTable]),
     Ev("div", WithClass(ClsSpecificationsWrapper)),
     Ev("dl", WithClass(ClsSpecificationsWrapper)),
     Ev("div", NoAttrs), Ev("li", NoAttrs),
     Ev("span", [NoAttrs EXCEPT !.itemprop = ItempropName])}

TextsDetail == {<<" ">>, <<"w">>}

EndTagsDetail == {"div", "li", "span", "table", "dl"}

StartTagDetail ==
    /\ pc = "feeding" /\ n < MaxEventsDetail
    /\ \E ev \in StartTagsDetail : DetailStart(ev)
    /\ UNCHANGED <<client, doc, parser, twin, pc, stack, closedOnce, itemsClosed, heard, watch,
                   phase, xendCap>>

DataDetail ==
    /\ pc = "feeding" /\ n < MaxEventsDetail
    /\ \E data \in TextsDetail : DetailData(data)
    /\ UNCHANGED <<client, doc, parser, twin, pc, stack, closedOnce, itemsClosed, heard, watch,
                   phase, xendCap>>

EndTagDetail ==
    /\ pc = "feeding" /\ n < MaxEventsDetail
    /\ \E tag \in EndTagsDetail : DetailEnd(tag)
    /\ UNCHANGED <<client, doc, parser, twin, pc, stack, closedOnce, itemsClosed, heard, watch,
                   phase, xendCap>>

NextDetail == StartTagDetail \/ DataDetail \/ EndTagDetail \/ Finish

SpecDetail == Init /\ [][NextDetail]_vars

\* C6 (as stated): over any event sequence no depth counter of either extractor
\* ever becomes negative.
C6_DepthsNonNegative ==
    /\ parser.ol_depth >= 0
    /\ parser.product_div_depth >= 0
    /\ detail.breadcrumb_depth >= 0
    /\ detail.description_depth >= 0
    /\ detail.spec_depth >= 0

RegionFlags ==
    {"in_breadcrumbs", "in_description", "in_stock_status", "in_tier_price_table",
     "in_specifications"}

OpenRegions == {f \in RegionFlags : detail[f]}

Opens(f) == ~detail[f] /\ detail'[f]

\* C7 (as stated): at every point of a pass at most one of the five regions is
\* open.
C7_AtMostOneRegion == Cardinality(OpenRegions) <= 1

\* C7 (amended): the regions are not mutually exclusive.  A region opens only at
\* a start tag that no earlier branch of handle_starttag intercepts: nothing
\* opens while the breadcrumb region is open, the stock, tier-price and
\* specification regions do not open while the description region is open, and
\* the specification region does not open while the tier-price table is open.
\* In every other order two regions are open together, and a non-blank text
\* event is then appended to both the description and the stock buffer when
\* both of those regions are open.
C7_RegionsOpenByDispatchOrder ==
    [][/\ (Opens("in_description") => ~detail.in_breadcrumbs)
       /\ (Opens("in_stock_status") => ~detail.in_breadcrumbs /\ ~detail.in_description)
       /\ (Opens("in_tier_price_table")
             => ~detail.in_breadcrumbs /\ ~detail.in_description)
       /\ (Opens("in_specifications")
             => /\ ~detail.in_breadcrumbs /\ ~detail.in_description
                /\ ~detail.in_tier_price_table)
       /\ (\A f \in RegionFlags : Opens(f) => last'.kind = "start")
       /\ (last'.kind = "data" /\ detail' # detail
             => /\ detail.in_description
                    => Len(detail'.description_buffer) = Len(detail.description_buffer) + 1
                /\ detail.in_stock_status
                    => Len(detail'.stock_buffer) = Len(detail.stock_buffer) + 1)]_vars

\* C7 witness: the description region opened inside the open stock region and a
\* text event went into both buffers.
C7_Witness ==
    /\ detail.in_stock_status /\ detail.in_description
    /\ detail.stock_buffer = << <<"w">> >>
    /\ detail.description_buffer = << <<"w">> >>

BreadcrumbFields ==
    {"in_breadcrumbs", "breadcrumb_depth", "capture_breadcrumb_name", "breadcrumb_buffer",
     "categories"}

\* C28: while the breadcrumb region is open, a start tag or end tag event changes
\* breadcrumb state only: every field of the description, stock, tier-price and
\* specification regions, outputs included, is left as it was.
C28_BreadcrumbEventsTouchOnlyBreadcrumbs ==
    [][(detail.in_breadcrumbs /\ n' = n + 1 /\ last'.kind \in {"start", "end"})
          => \A f \in (DOMAIN detail) \ BreadcrumbFields : detail'[f] = detail[f]]_vars

\* C28 witness: the description region was opened, then the breadcrumb region,
\* then a div start tag arrived: the description depth is still 1.
C28_Witness ==
    /\ n = 3 /\ last.kind = "start" /\ last.tag = "div"
    /\ detail.in_breadcrumbs /\ detail.breadcrumb_depth = 1
    /\ detail.in_description /\ detail.description_depth = 1

\* C27 (as stated): label/value capture is enabled only while the specification
\* region is open: in_spec_dl implies in_specifications, whatever start tag
\* carries the wrapper class and whatever end tags follow.
C27_DlOnlyInsideSpecifications == detail.in_spec_dl => detail.in_specifications

\* ------------------------------------------------------------------------
\* SpecDetailWF: well-formed documents fed to the detail extractor
\* ------------------------------------------------------------------------
DetailEntry(ev) ==
    [tag |-> ev.tag,
     kind |-> IF IsDescriptionDiv(ev.tag, ev.attrs) THEN "description"
              ELSE IF IsStockDiv(ev.tag, ev.attrs) THEN "stock"
              ELSE IF IsBreadcrumbsDiv(ev.tag, ev.attrs) THEN "breadcrumbs" ELSE "other",
     id |-> 0]

DescriptionElementOpen == \E i \in 1..Len(stack) : stack[i].kind = "description"

StartTagsDetailWF ==
    {Ev("div", WithClass(ClsDescriptionWrapper)), Ev("div", WithClass(ClsStockAvailable)),
     Ev("div", WithClass(ClsBreadcrumbs)), Ev("span", [NoAttrs EXCEPT !.itemprop = ItempropName]),
     Ev("div", NoAttrs), Ev("ul", NoAttrs), Ev("li", NoAttrs)}

TextsDetailWF == {<<"w">>}

StartTagDetailWF ==
    /\ pc = "feeding" /\ n < MaxEventsDetailWF /\ Len(stack) < MaxDepthDetailWF
    /\ \E ev \in StartTagsDetailWF :
          /\ DetailStart(ev)
          /\ stack' = Append(stack, DetailEntry(ev))
    /\ UNCHANGED <<client, doc, parser, twin, pc, closedOnce, itemsClosed, heard, watch, phase,
                   xendCap>>

DataDetailWF ==
    /\ pc = "feeding" /\ n < MaxEventsDetailWF
    /\ \E data \in TextsDetailWF : DetailData(data)
    /\ UNCHANGED <<client, doc, parser, twin, pc, stack, closedOnce, itemsClosed, heard, watch,
                   phase, xendCap>>

EndTagDetailWF ==
    /\ pc = "feeding" /\ n < MaxEventsDetailWF /\ stack # <<>>
    /\ DetailEnd(Top.tag)
    /\ stack' = Pop
    /\ UNCHANGED <<client, doc, parser, twin, pc, closedOnce, itemsClosed, heard, watch, phase,
                   xendCap>>

NextDetailWF == StartTagDetailWF \/ DataDetailWF \/ EndTagDetailWF \/ Finish

SpecDetailWF == Init /\ [][NextDetailWF]_vars

\* C2 (as stated): in a well-formed document the description region is closed by
\* the end tag that matches its opening div, whatever div/ul/li elements are
\* nested inside: once no div.product-description-wrapper element is open, the
\* extractor is no longer in the description region.
C2_DescriptionClosesAtItsEndTag == ~DescriptionElementOpen => ~detail.in_description

StockElementOpen == \E i \in 1..Len(stack) : stack[i].kind = "stock"

\* C12 (as stated): the stock region is closed by the end tag of the div that
\* opened it, also when that div holds no text: once no div whose class starts
\* with 'stock' is open, the extractor is no longer in the stock region.
C12_StockClosesAtItsEndTag == ~StockElementOpen => ~detail.in_stock_status

BreadcrumbsOpen == {i \in 1..Len(stack) : stack[i].kind = "breadcrumbs"}

\* C23 (as stated): in a well-formed document the breadcrumb region is open
\* exactly while its div.breadcrumbs element is open, whatever ul, li, span and
\* plain div elements are nested inside it.
C23_BreadcrumbsOpenWithItsDiv ==
    /\ Cardinality(BreadcrumbsOpen) = 1 => detail.in_breadcrumbs
    /\ BreadcrumbsOpen = {} => ~detail.in_breadcrumbs

\* ------------------------------------------------------------------------
\* Generated detail pages: the variables a detail-page pass leaves alone
\* ------------------------------------------------------------------------
pageFrame ==
    <<parser, twin, pc, stack, closedOnce, itemsClosed, heard, watch, phase, xendCap,
      client>>

\* The text of a leaf element whose text events are the given chunks.
ElementText(chunks) == Strip(Join(<<" ">>, chunks))

DocText(data) ==
    IF Strip(data) # EmptyStr THEN [doc EXCEPT !.text = Append(@, Strip(data))] ELSE doc

\* ------------------------------------------------------------------------
\* SpecSpecs: a specifications wrapper holding one dl of dt/dd pairs
\* ------------------------------------------------------------------------
TextsSpecs == {<<"a">>, <<"b">>}

SpecsOpen ==
    /\ pc = "feeding" /\ n < MaxEventsSpecs
    /\ \/ /\ doc.pos = "none"
          /\ DetailStart(Ev("div", WithClass(ClsSpecificationsWrapper)))
          /\ doc' = [doc EXCEPT !.pos = "wrapper"]
       \/ /\ doc.pos = "wrapper"
          /\ DetailStart(Ev("dl", NoAttrs))
          /\ doc' = [doc EXCEPT !.pos = "dl"]
       \/ /\ doc.pos = "dl"
          /\ DetailStart(Ev("dt", NoAttrs))
          /\ doc' = [doc EXCEPT !.pos = "dt", !.text = <<>>]
       \/ /\ doc.pos = "label"
          /\ DetailStart(Ev("dd", NoAttrs))
          /\ doc' = [doc EXCEPT !.pos = "dd", !.text = <<>>]
    /\ UNCHANGED pageFrame

SpecsText ==
    /\ pc = "feeding" /\ n < MaxEventsSpecs
    /\ doc.pos \in {"dt", "dd"}
    /\ \E data \in TextsSpecs : DetailData(data) /\ doc' = DocText(data)
    /\ UNCHANGED pageFrame

SpecsClose ==
    /\ pc = "feeding" /\ n < MaxEventsSpecs
    /\ \/ /\ doc.pos = "dt"
          /\ DetailEnd("dt")
          /\ doc' = [doc EXCEPT !.pos = "label", !.parts = ElementText(doc.text),
                                !.text = <<>>]
       \/ /\ doc.pos = "dd"
          /\ DetailEnd("dd")
          /\ doc' = [doc EXCEPT !.pos = "dl", !.parts = <<>>, !.text = <<>>,
                                !.out = Append(@, <<doc.parts, ElementText(doc.text)>>)]
       \/ /\ doc.pos = "dl"
          /\ DetailEnd("dl")
          /\ doc' = [doc EXCEPT !.pos = "listed"]
       \/ /\ doc.pos = "listed"
          /\ DetailEnd("div")
          /\ doc' = [doc EXCEPT !.pos = "closed"]
    /\ UNCHANGED pageFrame

NextSpecs == SpecsOpen \/ SpecsText \/ SpecsClose \/ Finish

SpecSpecs == Init /\ [][NextSpecs]_vars

\* C11 (as stated): for every sequence of dt/dd pairs, pairs with an empty dd
\* included, each entry written to the specifications mapping pairs the text of
\* a dt with the text of that dt's own dd.
C11_EntryPairsOwnDd ==
    \A i \in 1..Len(detail.specifications) :
        \E j \in 1..Len(doc.out) : doc.out[j] = detail.specifications[i]

\* ------------------------------------------------------------------------
\* SpecTier: a tier-price table of rows of td cells
\* ------------------------------------------------------------------------
DigitChar(i) == CHOOSE c \in Digits : DigitVal(c) = i

\* The text chunk k of cell c of row r: every chunk of the table is different.
CellText(r, c, k) == <<DigitChar(r), DigitChar(c), DigitChar(k)>>

\* plain: one text chunk; empty: no text; skipped: class hidden, one text chunk;
\* double: two text chunks.  A row holds at most one cell that is not plain.
CellKinds == {"plain", "empty", "skipped", "double"}

ChunksOf(kind) == IF kind = "empty" THEN 0 ELSE IF kind = "double" THEN 2 ELSE 1

ClsColHidden == <<"col", " ", "hidden">>

CellAttrs(kind) == IF kind = "skipped" THEN WithClass(ClsColHidden) ELSE NoAttrs

TierOpen ==
    /\ pc = "feeding" /\ n < MaxEventsTier
    /\ \/ /\ doc.pos = "none"
          /\ DetailStart(Ev("table", [NoAttrs EXCEPT !.id = IdTierPriceTable]))
          /\ doc' = [doc EXCEPT !.pos = "table"]
       \/ /\ doc.pos = "table"
          /\ DetailStart(Ev("tr", NoAttrs))
          /\ doc' = [doc EXCEPT !.pos = "tr", !.parts = <<>>]
       \/ /\ doc.pos = "tr"
          /\ Len(doc.parts) <= TIER_PRICE_BOX_INDEX
          /\ \E kind \in CellKinds :
                /\ kind = "plain" \/ \A i \in 1..Len(doc.parts) : doc.parts[i].kind = "plain"
                /\ DetailStart(Ev("td", CellAttrs(kind)))
                /\ doc' = [doc EXCEPT !.pos = kind, !.text = <<>>]
    /\ UNCHANGED pageFrame

TierText ==
    /\ pc = "feeding" /\ n < MaxEventsTier
    /\ doc.pos \in CellKinds
    /\ Len(doc.text) < ChunksOf(doc.pos)
    /\ LET data == <<" ">> \o CellText(Len(doc.out) + 1, Len(doc.parts) + 1,
                                      Len(doc.text) + 1)
       IN DetailData(data) /\ doc' = DocText(data)
    /\ UNCHANGED pageFrame

TierClose ==
    /\ pc = "feeding" /\ n < MaxEventsTier
    /\ \/ /\ doc.pos \in CellKinds
          /\ Len(doc.text) = ChunksOf(doc.pos)
          /\ DetailEnd("td")
          /\ doc' = [doc EXCEPT !.pos = "tr", !.text = <<>>,
                                !.parts = Append(@, [kind |-> doc.pos, text |-> doc.text])]
       \/ /\ doc.pos = "tr"
          /\ Len(doc.parts) >= TIER_PRICE_PIECE_INDEX
          /\ DetailEnd("tr")
          /\ doc' = [doc EXCEPT !.pos = "table", !.parts = <<>>,
                                !.out = Append(@, doc.parts)]
       \/ /\ doc.pos = "table"
          /\ DetailEnd("table")
          /\ doc' = [doc EXCEPT !.pos = "closed"]
    /\ UNCHANGED pageFrame

NextTier == TierOpen \/ TierText \/ TierClose \/ Finish

SpecTier == Init /\ [][NextTier]_vars

\* The slot a row fills from its cell at position k: the first text chunk of
\* that cell, unless the row has no such cell, or the cell is skipped or empty.
SlotOf(row, k) ==
    IF k <= Len(row) /\ row[k].kind # "skipped" /\ row[k].text # <<>>
    THEN row[k].text[1]
    ELSE None

RowComplete(row) ==
    /\ SlotOf(row, TIER_QUANTITY_INDEX) # None
    /\ SlotOf(row, TIER_PRICE_PIECE_INDEX) # None
    /\ SlotOf(row, TIER_PRICE_BOX_INDEX) # None

RECURSIVE TiersOf(_)
TiersOf(rows) ==
    IF rows = <<>> THEN <<>>
    ELSE LET row == rows[Len(rows)]
             before == TiersOf(SubSeq(rows, 1, Len(rows) - 1))
         IN IF RowComplete(row)
            THEN Append(before, [quantity |-> SlotOf(row, TIER_QUANTITY_INDEX),
                                 price_per_piece |-> SlotOf(row, TIER_PRICE_PIECE_INDEX),
                                 price_per_box |-> SlotOf(row, TIER_PRICE_BOX_INDEX)])
            ELSE before

\* C13: the tier entries are, in row order, one entry for each closed row whose
\* cells at positions 3, 4 and 5 all carry non-skipped text (the first text of
\* the cell), and no entry for a row with any of the three slots empty.
C13_OneTierPerCompleteRow == detail.price_tiers = TiersOf(doc.out)

\* C13 witness: a first row without a box-price cell gave no entry and a
\* complete second row gave the only entry.
C13_Witness ==
    /\ Len(doc.out) = 2
    /\ ~RowComplete(doc.out[1]) /\ RowComplete(doc.out[2])
    /\ Len(detail.price_tiers) = 1
    /\ detail.price_tiers[1].quantity = CellText(2, TIER_QUANTITY_INDEX, 1)

\* ------------------------------------------------------------------------
\* SpecCrumbs: a breadcrumb trail, div > ul > li > span[itemprop=name]
\* ------------------------------------------------------------------------
StrSnacks == <<"S", "n", "a", "c", "k", "s">>
StrCrackers == <<"C", "r", "a", "c", "k", "e", "r", "s">>

\* The text events of the name spans, as the tokenizer delivers them.
TextsCrumbs == {<<" ">> \o StrHome \o <<" ">>, StrProducts, StrSnacks, StrCrackers}

CrumbsOpen ==
    /\ pc = "feeding" /\ n < MaxEventsCrumbs
    /\ \/ /\ doc.pos = "none"
          /\ DetailStart(Ev("div", WithClass(ClsBreadcrumbs)))
          /\ doc' = [doc EXCEPT !.pos = "div"]
       \/ /\ doc.pos = "div"
          /\ DetailStart(Ev("ul", NoAttrs))
          /\ doc' = [doc EXCEPT !.pos = "ul"]
       \/ /\ doc.pos = "ul"
          /\ DetailStart(Ev("li", NoAttrs))
          /\ doc' = [doc EXCEPT !.pos = "li"]
       \/ /\ doc.pos = "li"
          /\ DetailStart(Ev("span", [NoAttrs EXCEPT !.itemprop = ItempropName]))
          /\ doc' = [doc EXCEPT !.pos = "span", !.text = <<>>]
    /\ UNCHANGED pageFrame

CrumbsText ==
    /\ pc = "feeding" /\ n < MaxEventsCrumbs
    /\ doc.pos = "span" /\ doc.text = <<>>
    /\ \E data \in TextsCrumbs : DetailData(data) /\ doc' = DocText(data)
    /\ UNCHANGED pageFrame

CrumbsClose ==
    /\ pc = "feeding" /\ n < MaxEventsCrumbs
    /\ \/ /\ doc.pos = "span"
          /\ DetailEnd("span")
          /\ doc' = [doc EXCEPT !.pos = "named", !.text = <<>>,
                                !.out = Append(@, ElementText(doc.text))]
       \/ /\ doc.pos = "named"
          /\ DetailEnd("li")
          /\ doc' = [doc EXCEPT !.pos = "ul"]
       \/ /\ doc.pos = "ul"
          /\ DetailEnd("ul")
          /\ doc' = [doc EXCEPT !.pos = "listed"]
       \/ /\ doc.pos = "listed"
          /\ DetailEnd("div")
          /\ doc' = [doc EXCEPT !.pos = "closed"]
    /\ UNCHANGED pageFrame

NextCrumbs == CrumbsOpen \/ CrumbsText \/ CrumbsClose \/ Finish

SpecCrumbs == Init /\ [][NextCrumbs]_vars

RECURSIVE CategoriesOf(_)
CategoriesOf(names) ==
    IF names = <<>> THEN <<>>
    ELSE LET name == names[Len(names)]
             before == CategoriesOf(SubSeq(names, 1, Len(names) - 1))
         IN IF name # EmptyStr /\ name \notin {StrHome, StrProducts}
            THEN Append(before, name) ELSE before

\* C14: the category list is, in document order, the (non-empty) texts of the
\* span[itemprop=name] elements of the breadcrumb region without the names
\* 'Home' and 'Products'; Home > Products > Snacks > Crackers gives
\* ['Snacks', 'Crackers'].
C14_CategoriesAreCrumbNames ==
    /\ detail.categories = CategoriesOf(doc.out)
    /\ doc.out = <<StrHome, StrProducts, StrSnacks, StrCrackers>>
          => detail.categories = <<StrSnacks, StrCrackers>>

\* C14 witness: the trail Home > Products > Snacks > Crackers was read to its
\* closing div.
C14_Witness ==
    /\ doc.pos = "closed"
    /\ doc.out = <<StrHome, StrProducts, StrSnacks, StrCrackers>>
    /\ detail.categories = <<StrSnacks, StrCrackers>>
    /\ ~detail.in_breadcrumbs

\* ------------------------------------------------------------------------
\* SpecAgain: one document parsed twice, each time by a newly constructed
\* ProductHTMLParser (parser: first call, twin: second call)
\* ------------------------------------------------------------------------
StartTagsAgain ==
    {Ev("ol", WithClass(ClsProductsList)), Ev("a", WithClass(ClsProductItemLink)),
     ItemInfo(<<"4">>)}

TextsAgain == {<<"w">>}

EndTagsAgain == {"ol", "div", "a"}

\* doc.out: the events of the document, in order.
AgainStart ==
    /\ pc = "feeding" /\ n < MaxEventsAgain /\ doc.pos = "none"
    /\ \E ev \in StartTagsAgain :
          /\ ListingStart(ev)
          /\ doc' = [doc EXCEPT !.out = Append(@, [kind |-> "start", ev |-> ev])]
    /\ UNCHANGED <<client, twin, detail, stack, itemsClosed, watch, phase, xendCap>>

AgainData ==
    /\ pc = "feeding" /\ n < MaxEventsAgain /\ doc.pos = "none"
    /\ \E data \in TextsAgain :
          /\ ListingData(data)
          /\ doc' = [doc EXCEPT !.out = Append(@, [kind |-> "data", ev |-> data])]
    /\ UNCHANGED <<client, twin, detail, stack, itemsClosed, watch, phase, xendCap>>

AgainEnd ==
    /\ pc = "feeding" /\ n < MaxEventsAgain /\ doc.pos = "none"
    /\ \E tag \in EndTagsAgain :
          /\ ListingEnd(tag)
          /\ doc' = [doc EXCEPT !.out = Append(@, [kind |-> "end", ev |-> tag])]
    /\ UNCHANGED <<client, twin, detail, stack, itemsClosed, watch, phase, xendCap>>

HandledBy(p, e) ==
    IF e.kind = "start" THEN Product_handle_starttag(p, e.ev.tag, e.ev.attrs)
    ELSE IF e.kind = "data" THEN Product_handle_data(p, e.ev)
    ELSE Product_handle_endtag(p, e.ev)

\* parser.feed(html): the handlers are called for the events of html in order.
RECURSIVE Feed(_, _)
Feed(p, events) ==
    IF events = <<>> THEN p ELSE Feed(HandledBy(p, Head(events)), Tail(events))

\* The first call has returned; the second call constructs its own parser and
\* feeds it the same document.
ParseAgain ==
    /\ pc = "feeding" /\ doc.pos = "none"
    /\ twin' = Feed(NewProductHTMLParser(parser), doc.out)
    /\ doc' = [doc EXCEPT !.pos = "again"]
    /\ last' = [kind |-> "again", tag |-> ""]
    /\ UNCHANGED <<client, parser, detail, pc, n, stack, closedOnce, itemsClosed, heard, watch,
                   phase, xendCap>>

NextAgain == AgainStart \/ AgainData \/ AgainEnd \/ ParseAgain \/ Finish

SpecAgain == Init /\ [][NextAgain]_vars

SecondParseDone == doc.pos = "again"

StrWidget == <<"W", "i", "d", "g", "e", "t">>
StrAcme == <<"A", "c", "m", "e">>
UrlW == <<"/w.html">>
UrlAbs == <<"https://", "maws.example", "/w.html">>
ClsPhoto == <<"product", " ", "photo", " ", "product-item-photo">>

TextsItem == {StrWidget, <<" ">> \o StrAcme}

LeafKinds == {"name", "photo", "absphoto", "nohref", "brand", "plain"}

LeafTag(kind) ==
    IF kind = "name" THEN Ev("a", WithClass(ClsProductItemLink))
    ELSE IF kind = "photo" THEN Ev("a", [WithClass(ClsPhoto) EXCEPT !.href = UrlW])
    ELSE IF kind = "absphoto" THEN Ev("a", [WithClass(ClsPhoto) EXCEPT !.href = UrlAbs])
    ELSE IF kind = "nohref" THEN Ev("a", WithClass(ClsPhoto))
    ELSE IF kind = "brand" THEN Ev("div", WithClass(ClsProductItemBrand))
    ELSE Ev("span", NoAttrs)

\* del d[k]
DropKey(d, k) == [x \in (DOMAIN d) \ {k} |-> d[x]]

\* The fields the document gives the open item once a leaf has started: a photo
\* anchor gives the URL of its href (the last photo anchor counts).
FieldsAtStart(fields, kind) ==
    IF kind = "photo" THEN SetKey(fields, "product_url", UrlW)
    ELSE IF kind = "absphoto" THEN SetKey(fields, "product_url", UrlAbs)
    ELSE IF kind = "nohref" THEN DropKey(fields, "product_url")
    ELSE fields

\* ... and once it has ended: a name anchor or brand div gives its text.
FieldsAtEnd(fields, kind, text) ==
    IF kind \in {"name", "brand"} /\ ElementText(text) # EmptyStr
    THEN SetKey(fields, kind, ElementText(text))
    ELSE fields

\* doc.parts: [id, fields] of the open item; doc.out: those of the closed items.
ItemOpen ==
    /\ pc = "feeding" /\ n < MaxEventsItem
    /\ \/ /\ doc.pos = "none"
          /\ ListingStart(Ev("ol", WithClass(ClsProductsList)))
          /\ doc' = [doc EXCEPT !.pos = "ol"]
       \/ /\ doc.pos = "ol"
          /\ \E id \in {None, <<"4", "2">>} :
                /\ ListingStart(ItemInfo(id))
                /\ doc' = [doc EXCEPT !.pos = "item",
                              !.parts = [id |-> IF id = None THEN 0 ELSE DecValue(id),
                                         fields |-> EmptyDict]]
       \/ /\ doc.pos = "item"
          /\ \E kind \in LeafKinds :
                /\ ListingStart(LeafTag(kind))
                /\ doc' = [doc EXCEPT !.pos = kind, !.text = <<>>,
                              !.parts.fields = FieldsAtStart(@, kind)]
    /\ UNCHANGED <<client, twin, detail, stack, itemsClosed, watch, phase, xendCap>>

ItemText ==
    /\ pc = "feeding" /\ n < MaxEventsItem
    /\ doc.pos \in LeafKinds \cup {"item"}
    /\ doc.pos \in LeafKinds => doc.text = <<>>
    /\ \E data \in TextsItem :
          /\ ListingData(data)
          /\ doc' = IF doc.pos \in LeafKinds THEN DocText(data) ELSE doc
    /\ UNCHANGED <<client, twin, detail, stack, itemsClosed, watch, phase, xendCap>>

ItemClose ==
    /\ pc = "feeding" /\ n < MaxEventsItem
    /\ \/ /\ doc.pos \in LeafKinds
          /\ ListingEnd(LeafTag(doc.pos).tag)
          /\ doc' = [doc EXCEPT !.pos = "item", !.text = <<>>,
                        !.parts.fields = FieldsAtEnd(@, doc.pos, doc.text)]
       \/ /\ doc.pos = "item"
          /\ ListingEnd("div")
          /\ doc' = [doc EXCEPT !.pos = "ol", !.parts = <<>>, !.out = Append(@, doc.parts)]
       \/ /\ doc.pos = "ol"
          /\ ListingEnd("ol")
          /\ doc' = [doc EXCEPT !.pos = "closed"]
    /\ UNCHANGED <<client, twin, detail, stack, itemsClosed, watch, phase, xendCap>>

NextItem == ItemOpen \/ ItemText \/ ItemClose \/ Finish

SpecItem == Init /\ [][NextItem]_vars

\* The fields of a record that are present (set to a value other than None).
PresentFields(rec) ==
    [k \in {x \in (DOMAIN rec) \ {"product_id"} : rec[x] # None} |-> rec[k]]

\* C16: each closed item gives exactly one record, carrying the identifier of
\* data-product-id and exactly the fields whose trigger elements occurred in
\* that item; an item holding only a name anchor 'Widget' and a photo anchor
\* with href gives its identifier, that name and that URL and nothing else.
C16_RecordHasItsTriggeredFields ==
    /\ Len(parser.products) = Len(doc.out)
    /\ \A i \in 1..Len(doc.out) :
          /\ parser.products[i].product_id = doc.out[i].id
          /\ PresentFields(parser.products[i]) = doc.out[i].fields

\* C16 witness: the item <a name>Widget</a><a photo href> of identifier 42 is
\* closed and gave a record with name, URL and no other field.
C16_Witness ==
    /\ Len(parser.products) = 1
    /\ doc.out = <<[id |-> 42,
                    fields |-> [k \in {"name", "product_url"} |->
                                   IF k = "name" THEN StrWidget ELSE UrlW]]>>
    /\ parser.products[1].product_id = 42
    /\ DOMAIN PresentFields(parser.products[1]) = {"name", "product_url"}
    /\ parser.products[1].name = StrWidget
    /\ parser.products[1].product_url = UrlW

\* ------------------------------------------------------------------------
\* SpecPage: _parse_products_from_html on a generated products list: after
\* feed() the records are turned into Product objects
\* ------------------------------------------------------------------------
\* HttpUrl accepts a string with scheme http or https and a host.
IsHttpUrl(u) ==
    /\ u # None
    /\ StartsWith(u, <<"https://">>) \/ StartsWith(u, <<"http://">>)
    /\ Len(u) >= 2

\* Product(**rec) raises ValidationError: name (str) and product_url (HttpUrl)
\* have no default and do not accept None.
ProductRaises(rec) ==
    \/ FieldOf(rec, "name") = None
    \/ ~IsHttpUrl(FieldOf(rec, "product_url"))

\* products = [Product(**p) for p in parser.products]; return products
BuildProducts ==
    /\ pc = "done"
    /\ pc' = IF \E i \in 1..Len(parser.products) : ProductRaises(parser.products[i])
             THEN "raised" ELSE "returned"
    /\ last' = [kind |-> "products", tag |-> ""]
    /\ UNCHANGED <<client, doc, parser, twin, detail, n, stack, closedOnce, itemsClosed, heard,
                   watch, phase, xendCap>>

NextPage == ItemOpen \/ ItemText \/ ItemClose \/ Finish \/ BuildProducts

SpecPage == Init /\ [][NextPage]_vars

\* C18 (as stated): an item without a photo anchor, or whose photo anchor has
\* no href, is still emitted and its missing URL does not make the parse of the
\* page fail: the parse of a page raises only if some record lacks a name or
\* carries a URL that is not a valid one.
C18_MissingUrlDoesNotFail ==
    pc = "raised" =>
        \E i \in 1..Len(parser.products) :
            \/ FieldOf(parser.products[i], "name") = None
            \/ /\ FieldOf(parser.products[i], "product_url") # None
               /\ ~IsHttpUrl(FieldOf(parser.products[i], "product_url"))

\* ------------------------------------------------------------------------
\* SpecStock: a page of plain divs and stock divs with visible text, the text
\* directly in the div or in a child span
\* ------------------------------------------------------------------------
StrInStockTitle == <<"I", "n", " ", "S", "t", "o", "c", "k">>
StrOutOfStock == <<"O", "u", "t", " ", "o", "f", " ", "S", "t", "o", "c", "k">>
StrIn == <<"I", "n">>
StrStockUpper == <<"S", "T", "O", "C", "K">>

TextsStock == {StrInStockTitle, <<" ">> \o StrOutOfStock \o <<" ">>, StrIn, StrStockUpper}

\* doc.text: the text chunks of the open stock div; doc.out: the texts of the
\* stock divs closed so far.
StockOpen ==
    /\ pc = "feeding" /\ n < MaxEventsStock
    /\ \/ /\ doc.pos = "none"
          /\ DetailStart(Ev("div", NoAttrs))
          /\ doc' = [doc EXCEPT !.pos = "plain"]
       \/ /\ doc.pos = "none"
          /\ DetailStart(Ev("div", WithClass(ClsStockAvailable)))
          /\ doc' = [doc EXCEPT !.pos = "stock", !.text = <<>>]
       \/ /\ doc.pos = "stock"
          /\ DetailStart(Ev("span", NoAttrs))
          /\ doc' = [doc EXCEPT !.pos = "span"]
    /\ UNCHANGED pageFrame

StockText ==
    /\ pc = "feeding" /\ n < MaxEventsStock
    /\ doc.pos \in {"plain", "stock", "span"}
    /\ \E data \in TextsStock :
          /\ DetailData(data)
          /\ doc' = IF doc.pos = "plain" THEN doc ELSE DocText(data)
    /\ UNCHANGED pageFrame

StockClose ==
    /\ pc = "feeding" /\ n < MaxEventsStock
    /\ \/ /\ doc.pos = "plain"
          /\ DetailEnd("div")
          /\ doc' = [doc EXCEPT !.pos = "none"]
       \/ /\ doc.pos = "span"
          /\ DetailEnd("span")
          /\ doc' = [doc EXCEPT !.pos = "stock"]
       \/ /\ doc.pos = "stock" /\ doc.text # <<>>
          /\ DetailEnd("div")
          /\ doc' = [doc EXCEPT !.pos = "none", !.text = <<>>,
                                !.out = Append(@, ElementText(doc.text))]
    /\ UNCHANGED pageFrame

NextStock == StockOpen \/ StockText \/ StockClose \/ Finish

SpecStock == Init /\ [][NextStock]_vars

LastStockText == doc.out[Len(doc.out)]

\* C17: once a stock div with visible text has closed, stock_available is true
\* iff the lower-cased space-joined text of the (last such) div contains
\* 'in stock': 'In Stock' gives true, 'Out of Stock' gives false; while no stock
\* div has closed it stays absent.
C17_StockFlagFromText ==
    /\ doc.out = <<>> => detail.stock_available = "None"
    /\ doc.out # <<>> =>
          /\ detail.stock_available = "True" <=> Contains(Lower(LastStockText), StrInStock)
          /\ detail.stock_available = "False" <=> ~Contains(Lower(LastStockText), StrInStock)
          /\ LastStockText = StrInStockTitle => detail.stock_available = "True"
          /\ LastStockText = StrOutOfStock => detail.stock_available = "False"

\* C17 witness: a stock div 'Out of Stock' closed after a stock div 'In Stock'.
C17_Witness ==
    /\ doc.out = <<StrInStockTitle, StrOutOfStock>>
    /\ detail.stock_available = "False"
    /\ ~detail.in_stock_status

\* ------------------------------------------------------------------------
\* SpecDesc: a description wrapper holding one ul of li elements with text
\* ------------------------------------------------------------------------
TextsDesc == {<<"a">>, <<" ", "b", " ">>}

\* doc.text: the text chunks of the open li; doc.out: the texts of the closed li.
DescOpen ==
    /\ pc = "feeding" /\ n < MaxEventsDesc
    /\ \/ /\ doc.pos = "none"
          /\ DetailStart(Ev("div", WithClass(ClsDescriptionWrapper)))
          /\ doc' = [doc EXCEPT !.pos = "div"]
       \/ /\ doc.pos = "div"
          /\ DetailStart(Ev("ul", NoAttrs))
          /\ doc' = [doc EXCEPT !.pos = "ul"]
       \/ /\ doc.pos = "ul"
          /\ DetailStart(Ev("li", NoAttrs))
          /\ doc' = [doc EXCEPT !.pos = "li", !.text = <<>>]
    /\ UNCHANGED pageFrame

DescText ==
    /\ pc = "feeding" /\ n < MaxEventsDesc
    /\ doc.pos \in {"li", "closed"}
    /\ \E data \in TextsDesc :
          /\ DetailData(data)
          /\ doc' = IF doc.pos = "li" THEN DocText(data) ELSE doc
    /\ UNCHANGED pageFrame

DescClose ==
    /\ pc = "feeding" /\ n < MaxEventsDesc
    /\ \/ /\ doc.pos = "li"
          /\ DetailEnd("li")
          /\ doc' = [doc EXCEPT !.pos = "ul", !.text = <<>>,
                                !.out = Append(@, ElementText(doc.text))]
       \/ /\ doc.pos = "ul"
          /\ DetailEnd("ul")
          /\ doc' = [doc EXCEPT !.pos = "listed"]
       \/ /\ doc.pos = "listed"
          /\ DetailEnd("div")
          /\ doc' = [doc EXCEPT !.pos = "closed"]
    /\ UNCHANGED pageFrame

NextDesc == DescOpen \/ DescText \/ DescClose \/ Finish

SpecDesc == Init /\ [][NextDesc]_vars

RECURSIVE NonEmptyOf(_)
NonEmptyOf(texts) ==
    IF texts = <<>> THEN <<>>
    ELSE IF Head(texts) = EmptyStr THEN NonEmptyOf(Tail(texts))
    ELSE <<Head(texts)>> \o NonEmptyOf(Tail(texts))

\* C19: the description is the non-empty li texts of the description region in
\* document order joined by ' | ', and absent while no li with text has closed.
C19_DescriptionJoinsFragments ==
    LET fragments == NonEmptyOf(doc.out) IN
    detail.description = IF fragments = <<>> THEN None ELSE Join(StrBar, fragments)

\* C19 witness: the list <li>a</li><li></li><li>b</li> was read to the closing
\* div of the wrapper.
C19_Witness ==
    /\ doc.pos = "closed"
    /\ doc.out = << <<"a">>, EmptyStr, <<"b">> >>
    /\ detail.description = <<"a", " ", "|", " ", "b">>
    /\ ~detail.in_description

\* ------------------------------------------------------------------------
\* SpecCount: extract_total_products, the maws.parser revision and the
\* experimental revision, applied to one page text
\* ------------------------------------------------------------------------
\* A page text is a sequence of tokens: the word Products or one character.
WordProducts == "Products"

\* re.search(r"Products\s*\((\d+)\)", html): a match starts at token i, has its
\* "(" at token j and its ")" at token k.
MatchAt(html, i, j, k) ==
    /\ html[i] = WordProducts
    /\ i < j /\ j + 1 < k /\ k <= Len(html)
    /\ \A x \in (i + 1)..(j - 1) : IsSpace(html[x])
    /\ html[j] = "("
    /\ \A x \in (j + 1)..(k - 1) : html[x] \in Digits
    /\ html[k] = ")"

Matches(html) ==
    {m \in (1..Len(html)) \X (1..Len(html)) \X (1..Len(html)) :
        MatchAt(html, m[1], m[2], m[3])}

\* match.group(1) of the leftmost match
FirstGroup(html) ==
    LET m == CHOOSE x \in Matches(html) : \A y \in Matches(html) : x[1] <= y[1]
    IN SubSeq(html, m[2] + 1, m[3] - 1)

FALLBACK_COUNT == 4343

\* mutant: the maws.parser revision without its fallback
extract_total_products_NoFallback(html) ==
    IF Matches(html) = {} THEN [raised |-> TRUE, v |-> 0]
    ELSE [raised |-> FALSE, v |-> PyInt(FirstGroup(html)).v]

\* ProductHTMLParser.extract_total_products
extract_total_products(html) ==
    IF Matches(html) = {} THEN [raised |-> FALSE, v |-> FALLBACK_COUNT]
    ELSE [raised |-> FALSE, v |-> PyInt(FirstGroup(html)).v]

\* experimental/app.py, extract_total_products
experimental_extract_total_products(html) ==
    IF Matches(html) = {} THEN [raised |-> TRUE, v |-> 0]
    ELSE [raised |-> FALSE, v |-> PyInt(FirstGroup(html)).v]

Pieces ==
    {<<WordProducts>>, <<" ">>, <<"(">>, <<")">>, <<"4">>, <<"x">>,
     <<"(", "4", ")">>, <<"(", "7", "4", ")">>}

RECURSIVE Flatten(_)
Flatten(ps) == IF ps = <<>> THEN <<>> ELSE Head(ps) \o Flatten(Tail(ps))

PageTexts == {Flatten(ps) : ps \in UNION {[1..k -> Pieces] : k \in 0..MaxPieces}}

\* doc.text: the page text; doc.parts: what each revision returned for it.
InitCount ==
    /\ parser = InitProductHTMLParser
    /\ twin = InitProductHTMLParser
    /\ detail = InitDetailedProductParser
    /\ pc = "feeding"
    /\ n = 0
    /\ last = [kind |-> "init", tag |-> ""]
    /\ stack = <<>>
    /\ closedOnce = FALSE
    /\ itemsClosed = <<>>
    /\ heard = NoHeard
    /\ watch = NoWatch
    /\ phase = "none"
    /\ xendCap = FALSE
    /\ client = NoClient
    /\ \E html \in PageTexts : doc = [NoDoc EXCEPT !.text = html, !.parts = EmptyDict]

CallMaws ==
    /\ "maws" \notin DOMAIN doc.parts
    /\ doc' = [doc EXCEPT !.parts = SetKey(@, "maws", extract_total_products(doc.text))]
    /\ last' = [kind |-> "call", tag |-> "maws"]
    /\ UNCHANGED <<client, parser, twin, detail, n>>
    /\ UNCHANGED pageFrame

CallExperimental ==
    /\ "experimental" \notin DOMAIN doc.parts
    /\ doc' = [doc EXCEPT !.parts = SetKey(@, "experimental",
                                          experimental_extract_total_products(doc.text))]
    /\ last' = [kind |-> "call", tag |-> "experimental"]
    /\ UNCHANGED <<client, parser, twin, detail, n>>
    /\ UNCHANGED pageFrame

NextCount == CallMaws \/ CallExperimental

SpecCount == InitCount /\ [][NextCount]_vars

BothCalled == DOMAIN doc.parts = {"maws", "experimental"}

\* C20: on a page text with a match both revisions return the integer of the
\* first match; on a page text without a match the maws.parser revision returns
\* 4343 without raising and the experimental revision raises.
C20_RevisionsAgreeOnMatch ==
    BothCalled =>
        /\ Matches(doc.text) # {} =>
              /\ doc.parts["maws"] = doc.parts["experimental"]
              /\ ~doc.parts["maws"].raised
              /\ doc.parts["maws"].v = DecValue(FirstGroup(doc.text))
        /\ Matches(doc.text) = {} =>
              /\ doc.parts["maws"] = [raised |-> FALSE, v |-> 4343]
              /\ doc.parts["experimental"].raised
        /\ doc.text = <<WordProducts, " ", "(", "4", ")", "(", "7", "4", ")">>
              => doc.parts["maws"].v = 4
        /\ doc.text = <<WordProducts, "(", "4", ")", WordProducts, "(", "7", "4", ")">>
              => doc.parts["experimental"].v = 4

\* C20 witness: both revisions were applied to 'Products(4)Products(74)' and
\* returned 4.
C20_Witness ==
    /\ BothCalled
    /\ doc.text = <<WordProducts, "(", "4", ")", WordProducts, "(", "7", "4", ")">>
    /\ doc.parts["maws"] = [raised |-> FALSE, v |-> 4]
    /\ doc.parts["experimental"] = [raised |-> FALSE, v |-> 4]

\* ---------------------------------------------------------------------------
\* MawsAsyncClient.download_all_products (client.py): one run of the download,
\* from the first request to the return or the exception.  A request is 0 (the
\* base url), 1 (the first products page) or p >= 2 (page p, one task of the
\* gather); its status is "waiting" (at the limiter), "in_flight" (limiter
\* held, response awaited), "sleeping" (limiter held, rate-limit sleep), "done",
\* "failed" (the request raised) or "cancelled".
\* ---------------------------------------------------------------------------
LIST_LIMIT == 48

NoMaxPages == <<>>

parseFrame ==
    <<parser, twin, detail, pc, n, last, stack, closedOnce, itemsClosed, heard,
      watch, phase, xendCap, doc>>

\* math.ceil(total_products / int(list_limit_value)), capped by max_pages
total_pages_of(total_products, max_pages) ==
    LET got_pages == (total_products + LIST_LIMIT - 1) \div LIST_LIMIT
    IN  IF max_pages # NoMaxPages
        THEN (IF got_pages < max_pages[1] THEN got_pages ELSE max_pages[1])
        ELSE got_pages

\* range(2 + skip, total_pages + 1)
RemainingPages(skip, total_pages) == (2 + skip)..total_pages

\* fetch: "async with self.rate_limiter" entered, the request sent
fetch_acquire(c, r) == [c EXCEPT !.limiter = @ - 1, !.req[r] = "in_flight"]

\* fetch: the response passed raise_for_status, the rate-limit sleep starts
fetch_sleep(c, r) == [c EXCEPT !.req[r] = "sleeping"]

fetch_raise_KeepLimiter(c, r) == [c EXCEPT !.req[r] = "failed"]

\* fetch: the request raised; leaving "async with" releases the limiter
fetch_raise(c, r) == [c EXCEPT !.limiter = @ + 1, !.req[r] = "failed"]

\* fetch: the sleep is over, the response is returned and the limiter released
fetch_return(c, r) == [c EXCEPT !.limiter = @ + 1, !.req[r] = "done"]

Holding(c) == {r \in DOMAIN c.req : c.req[r] \in {"in_flight", "sleeping"}}

Running == client.pc \in {"base", "login", "first", "gather"}

\* what comes after the first products page: the page count, page_1.html when
\* nothing is skipped, and one waiting task per remaining page
AfterFirstPage(c) ==
    LET total_pages == total_pages_of(c.site_products, c.max_pages)
        pages == RemainingPages(c.skip, total_pages)
    IN  [c EXCEPT !.total_pages = total_pages,
                  !.saved = IF c.skip = 0 THEN {1} ELSE {},
                  !.req = [r \in DOMAIN c.req \cup pages |->
                              IF r \in DOMAIN c.req THEN c.req[r] ELSE "waiting"],
                  !.pc = "gather"]

\* what the caller of fetch does with the response of request r
AfterFetch(c, r) ==
    IF r = 0
    THEN (IF c.has_credentials
          THEN [c EXCEPT !.pc = "login"]
          ELSE [c EXCEPT !.pc = "first", !.req = [q \in {0, 1} |-> IF q = 0 THEN c.req[0] ELSE "waiting"]])
    ELSE IF r = 1
    THEN AfterFirstPage(c)
    ELSE [c EXCEPT !.saved = @ \cup {r}]

SiteCounts ==
    {0} \cup {LIST_LIMIT * p : p \in 1..MaxPages}
        \cup {LIST_LIMIT * (p - 1) + 1 : p \in 1..MaxPages}

InitDownload ==
    /\ parser = InitProductHTMLParser
    /\ twin = InitProductHTMLParser
    /\ detail = InitDetailedProductParser
    /\ pc = "feeding"
    /\ n = 0
    /\ last = [kind |-> "init", tag |-> ""]
    /\ stack = <<>>
    /\ closedOnce = FALSE
    /\ itemsClosed = <<>>
    /\ heard = NoHeard
    /\ watch = NoWatch
    /\ phase = "none"
    /\ xendCap = FALSE
    /\ doc = NoDoc
    /\ \E skip \in 0..MaxPages,
          max_pages \in {NoMaxPages} \cup {<<m>> : m \in 1..MaxPages},
          has_credentials \in BOOLEAN,
          site_products \in SiteCounts :
          client = [limiter |-> 1, pc |-> "base", skip |-> skip,
                    max_pages |-> max_pages, has_credentials |-> has_credentials,
                    site_products |-> site_products, total_pages |-> 0,
                    req |-> [r \in {0} |-> "waiting"], saved |-> {}]

Acquire(r) ==
    /\ Running
    /\ r \in DOMAIN client.req
    /\ client.req[r] = "waiting"
    /\ client.limiter > 0
    /\ client' = fetch_acquire(client, r)
    /\ UNCHANGED parseFrame

RespondOk(r) ==
    /\ Running
    /\ r \in DOMAIN client.req
    /\ client.req[r] = "in_flight"
    /\ client' = fetch_sleep(client, r)
    /\ UNCHANGED parseFrame

\* a request of the coroutine itself (0, 1) raises out of download_all_products;
\* a page task keeps its exception for the gather
RespondError(r) ==
    /\ Running
    /\ r \in DOMAIN client.req
    /\ client.req[r] = "in_flight"
    /\ client' = IF r < 2
                 THEN [fetch_raise(client, r) EXCEPT !.pc = "raised"]
                 ELSE fetch_raise(client, r)
    /\ UNCHANGED parseFrame

Wake(r) ==
    /\ Running
    /\ r \in DOMAIN client.req
    /\ client.req[r] = "sleeping"
    /\ client' = AfterFetch(fetch_return(client, r), r)
    /\ UNCHANGED parseFrame

Login(ok) ==
    /\ client.pc = "login"
    /\ client' = IF ok
                 THEN [client EXCEPT !.pc = "first",
                          !.req = [q \in {0, 1} |-> IF q = 0 THEN client.req[0] ELSE "waiting"]]
                 ELSE [client EXCEPT !.pc = "raised"]
    /\ UNCHANGED parseFrame

GatherReturns ==
    /\ client.pc = "gather"
    /\ \A r \in DOMAIN client.req : client.req[r] = "done"
    /\ client' = [client EXCEPT !.pc = "returned"]
    /\ UNCHANGED parseFrame

\* the first exception leaves the gather and the coroutine; asyncio.run then
\* cancels the tasks still pending, and a cancelled holder leaves "async with"
GatherRaises ==
    /\ client.pc = "gather"
    /\ \E r \in DOMAIN client.req : client.req[r] = "failed"
    /\ client' = [client EXCEPT
                    !.pc = "raised",
                    !.limiter = @ + Cardinality(Holding(client)),
                    !.req = [r \in DOMAIN client.req |->
                                IF client.req[r] \in {"waiting", "in_flight", "sleeping"}
                                THEN "cancelled" ELSE client.req[r]]]
    /\ UNCHANGED parseFrame

Requests == 0..(MaxPages + 1)

NextDownload ==
    \/ \E r \in Requests : Acquire(r)
    \/ \E r \in Requests : RespondOk(r)
    \/ \E r \in Requests : RespondError(r)
    \/ \E r \in Requests : Wake(r)
    \/ \E ok \in BOOLEAN : Login(ok)
    \/ GatherReturns
    \/ GatherRaises

SpecDownload == InitDownload /\ [][NextDownload]_vars

\* C21 (as stated): with skip = k below the page count, a run that returns has
\* saved exactly the pages k+1..total_pages: pages 1..k, and only they, are
\* skipped.
C21_SkipIsPagesSkipped ==
    (client.pc = "returned" /\ client.skip < client.total_pages)
        => client.saved = (client.skip + 1)..client.total_pages

\* C29: at most one request made through fetch holds the rate limiter at any
\* time, and the limiter is free whenever no request holds it, also after a
\* request has raised, so the requests still waiting can go on.
C29_OneRequestInFlight ==
    /\ Cardinality(Holding(client)) <= 1
    /\ client.limiter = 1 - Cardinality(Holding(client))

\* one page task has failed and another holds the limiter, so it acquired the
\* limiter after the failure, while a third page still waits
C29_Witness ==
    /\ client.pc = "gather"
    /\ \E r, q, w \in DOMAIN client.req :
          /\ r >= 2 /\ client.req[r] = "failed"
          /\ q >= 2 /\ client.req[q] \in {"in_flight", "sleeping"}
          /\ client.req[w] = "waiting"
====
